---- MODULE Spec2Model ----
(***************************************************************************)
(* A model of the Mudrex futures-trading SDK (package mudrex): the         *)
(* positions, assets, orders and fees endpoints of mudrex/api, the record  *)
(* parsers of mudrex/models.py they use, the error mapping of              *)
(* mudrex/exceptions.py and the tool wrappers of mudrex/mcp/tools.py.      *)
(*                                                                         *)
(* The exchange is the environment: its open positions, asset catalog and  *)
(* history collections are state the SDK reads over HTTP.  Every SDK call  *)
(* is one action; the call's arguments, the envelope shape of the remote   *)
(* answer and the transport faults are its inputs.  The variable last      *)
(* holds the record of the call that has just ended: what it returned or   *)
(* raised and the HTTP requests it issued, in order; the caller then takes *)
(* the result (Returned) and may call again.  Only the concurrent refresh  *)
(* of the asset cache is taken statement by statement, one thread at a     *)
(* time (the variable thread).                                             *)
(*                                                                         *)
(* Decimal strings ("0.5") are modelled by their value in thousandths      *)
(* (Num(500)); None, the empty string and a non-numeric string are the     *)
(* other values a string argument can take.                                *)
(***************************************************************************)
EXTENDS Integers, Sequences, FiniteSets, TLC

VARIABLES
    exPositions,  \* exchange: position id -> open quantity (0: not open)
    shown,        \* the positions the caller was last shown by list_open
    catalog,      \* exchange: the asset catalog, [base, n]: assets base+1..base+n
    history,      \* exchange: number of records in a history collection
    cache,        \* AssetsAPI instance -> _assets_cache (NoneV or Some(seq))
    index,        \* AssetsAPI instance -> _cache_symbols (NoneV or Some(function))
    lastDrain,    \* per instance, and for the process as a whole: the assets of the
                  \* most recent completed drain, NoneV after a clear_cache
    last,         \* the most recent SDK call: arguments, outcome, requests
    thread        \* thread -> its list_all(refresh=True) in progress on one
                  \* AssetsAPI: the statement it is at, and its all_assets

vars == <<exPositions, shown, catalog, history, cache, index, lastDrain, last, thread>>

-----------------------------------------------------------------------------
(* Values *)

NoneV == [t |-> "none"]
Some(v) == [t |-> "some", v |-> v]
Num(u) == [t |-> "num", u |-> u]
EmptyS == [t |-> "empty"]
BadS == [t |-> "bad"]
\* A JSON number of a payload (an int or a float), in thousandths.
Number(u) == [t |-> "number", u |-> u]

\* Python truthiness of an optional value: None, "" and the number 0 are
\* falsy, every other number and every other string (even "0") is truthy.
Truthy(s) == s.t \notin {"none", "empty"} /\ s # Number(0)

\* str(v) of a payload value: a number becomes its decimal string, a string
\* is itself.
Str(v) == IF v.t = "number" THEN Num(v.u) ELSE v

Min(a, b) == IF a < b THEN a ELSE b

Take(s, n) == SubSeq(s, 1, Min(n, Len(s)))

-----------------------------------------------------------------------------
(* Bounds *)

MaxQty == 2
MaxPage == 3
MaxSteps == 12

PosIds == {"p1", "p2"}
Instances == {"a1", "a2"}
Process == "process"

NoCall == [op |-> "none", outcome |-> "none", reqs |-> <<>>]

\* The threads that share one AssetsAPI, and a thread outside list_all.
Threads == {"t1", "t2"}
NoThreadCall == [pc |-> "idle", all_assets |-> <<>>]

-----------------------------------------------------------------------------
(* The transport: GET/POST against the exchange *)

Req(method, path) == [method |-> method, path |-> path]
ReqId(method, path, id) == [method |-> method, path |-> path, id |-> id]

PostsOf(reqs) == Len(SelectSeq(reqs, LAMBDA r : r.method = "POST"))

\* The envelope shapes a list-bearing answer may take.
ListShapes == {"data_list", "data_items", "data_data", "bare_items"}

\* A list-bearing answer: the items wrapped in one of the envelope shapes,
\* or an object that carries no items at all.
Envelope(shape, items) == [shape |-> shape, items |-> items]

\* response.get("data", response), then the list itself or
\* data.get("items", data.get("data", [])).
ItemsOf(resp) ==
    CASE resp.shape = "data_list" -> resp.items
      [] resp.shape = "data_items" -> resp.items
      [] resp.shape = "data_data" -> resp.items
      [] resp.shape = "bare_items" -> resp.items
      [] OTHER -> <<>>

-----------------------------------------------------------------------------
(* Positions *)

OpenIds(ex) == {p \in PosIds : ex[p] > 0}

\* The open positions in the order the exchange lists them.
PosOrder == <<"p1", "p2">>
OpenSeq(ex) == SelectSeq(PosOrder, LAMBDA p : ex[p] > 0)

\* The exchange's payload for one position; the quantity is carried under
\* "quantity" or under "size" depending on the endpoint variant.
PositionPayload(ex, p, key) ==
    [ position_id |-> p,
      quantity |-> IF key = "quantity" THEN Num(ex[p]) ELSE NoneV,
      size |-> IF key = "size" THEN Num(ex[p]) ELSE NoneV ]

\* A falsy item (an empty object) the exchange may put in a list.
EmptyItem == [position_id |-> "", quantity |-> NoneV, size |-> NoneV]
IsFalsyItem(item) == item = EmptyItem

\* Mutant: the size is tried before the quantity.
normalize_quantity_size_first(data) ==
    Str(IF Truthy(data.size) THEN data.size
        ELSE IF Truthy(data.quantity) THEN data.quantity
        ELSE Num(0))

\* str(data.get("quantity") or data.get("size") or "0")
normalize_quantity(data) ==
    Str(IF Truthy(data.quantity) THEN data.quantity
        ELSE IF Truthy(data.size) THEN data.size
        ELSE Num(0))

PositionFromDict(data) ==
    [position_id |-> data.position_id, quantity |-> normalize_quantity(data)]

\* The exchange's truth, as the Position records a faithful read shows.
TruePositions(ex) ==
    LET ids == OpenSeq(ex)
    IN [k \in 1..Len(ids) |-> [position_id |-> ids[k], quantity |-> Num(ex[ids[k]])]]

\* GET /futures/positions as the exchange answers it.
PositionsResponse(ex, shape, key, junk) ==
    LET ids == OpenSeq(ex)
        items == [k \in 1..Len(ids) |-> PositionPayload(ex, ids[k], key)]
    IN Envelope(shape, IF junk THEN <<EmptyItem>> \o items ELSE items)

\* Mutant: answers from the positions shown before when there are any.
positions_list_open_stale(resp) ==
    IF shown # NoneV THEN shown.v
    ELSE LET items == SelectSeq(ItemsOf(resp), LAMBDA it : ~IsFalsyItem(it))
         IN [k \in 1..Len(items) |-> PositionFromDict(items[k])]

\* PositionsAPI.list_open, after the GET: the response parsed into Positions.
positions_list_open(resp) ==
    IF ItemsOf(resp) = <<>> THEN <<>>
    ELSE LET items == SelectSeq(ItemsOf(resp), LAMBDA it : ~IsFalsyItem(it))
         IN [k \in 1..Len(items) |-> PositionFromDict(items[k])]

Idle == last = NoCall

ListOpen ==
    /\ Idle
    /\ \E shape \in ListShapes \cup {"empty"}, key \in {"quantity", "size"},
       junk \in BOOLEAN, fail \in BOOLEAN :
        LET call == [ op |-> "positions.list_open", seen |-> exPositions, prior |-> shown,
                      reqs |-> <<Req("GET", "/futures/positions")>> ]
            result == positions_list_open(PositionsResponse(exPositions, shape, key, junk))
        IN /\ shape = "empty" => OpenIds(exPositions) = {} /\ ~junk
           /\ last' = IF fail THEN call @@ [outcome |-> "TransportError"]
                      ELSE call @@ [outcome |-> "ok", result |-> result]
           /\ shown' = IF fail THEN shown ELSE Some(result)
           /\ UNCHANGED <<exPositions, catalog, history, thread, cache, index, lastDrain>>

\* PositionsAPI.get, after the GET: the response parsed into a Position.
positions_get(data) == PositionFromDict(data)

\* GET /futures/positions/{id}; an id that is not open is the transport's
\* not-found error.
GetPosition ==
    /\ Idle
    /\ \E p \in PosIds, key \in {"quantity", "size"} :
        LET call == [ op |-> "positions.get", id |-> p, seen |-> exPositions,
                      prior |-> shown,
                      reqs |-> <<ReqId("GET", "/futures/positions/{id}", p)>> ]
        IN /\ last' = IF exPositions[p] = 0 THEN call @@ [outcome |-> "TransportError"]
                      ELSE call @@ [ outcome |-> "ok",
                                     result |-> positions_get(
                                                  PositionPayload(exPositions, p, key)) ]
           /\ UNCHANGED <<exPositions, shown, catalog, history, thread, cache, index,
                     lastDrain>>

\* PositionsAPI.close: POST /futures/positions/{id}/close; the exchange
\* closes the position when it is open.
ClosePosition ==
    /\ Idle
    /\ \E p \in PosIds :
        /\ exPositions' = [exPositions EXCEPT ![p] = 0]
        /\ last' = [ op |-> "positions.close", id |-> p, seen |-> exPositions,
                     reqs |-> <<ReqId("POST", "/futures/positions/{id}/close", p)>> ]
                   @@ IF exPositions[p] = 0 THEN [outcome |-> "TransportError"]
                      ELSE [outcome |-> "ok", result |-> TRUE]
        /\ UNCHANGED <<shown, catalog, history, thread, cache, index, lastDrain>>

\* The exchange itself: fills, liquidations and trades placed elsewhere
\* change the open positions between SDK calls.
ExchangeMoves ==
    \E p \in PosIds, q \in 0..MaxQty :
        /\ q # exPositions[p]
        /\ exPositions' = [exPositions EXCEPT ![p] = q]
        /\ UNCHANGED <<shown, catalog, history, thread, cache, index, lastDrain, last>>

\* The caller takes the result of the call; the SDK is idle again.
Returned ==
    /\ ~Idle
    /\ last' = NoCall
    /\ UNCHANGED <<exPositions, shown, catalog, history, thread, cache, index,
                     lastDrain>>

-----------------------------------------------------------------------------
(* The asset catalog and its cache *)

PerPage == 100

\* The symbol of catalog asset k, as a code; two assets may share one.
SymbolOf(k) == (k * 37) % 101

AssetPayload(k, idKey) ==
    [ asset_id |-> IF idKey = "asset_id" THEN Some(k) ELSE NoneV,
      id |-> IF idKey = "id" THEN Some(k) ELSE NoneV,
      symbol |-> SymbolOf(k) ]

\* Asset.from_dict: asset_id from "asset_id", else from "id".
AssetFromDict(data) ==
    [ asset_id |-> IF data.asset_id # NoneV THEN data.asset_id.v ELSE data.id.v,
      symbol |-> data.symbol ]

\* sorted(assets, key=symbol, reverse=...): a stable sort; equal symbols keep
\* their catalog order.
SymbolBefore(a, b, order) ==
    IF a.symbol = b.symbol THEN a.asset_id < b.asset_id
    ELSE IF order = "desc" THEN a.symbol > b.symbol ELSE a.symbol < b.symbol

SortAssets(assets, sort_by, sort_order) ==
    IF sort_by = "symbol"
    THEN SortSeq(assets, LAMBDA a, b : SymbolBefore(a, b, sort_order))
    ELSE assets

\* The catalog in the order the exchange serves it for the given sort.
CatalogSeq(cat, sort_by, sort_order) ==
    SortAssets([k \in 1..cat.n |-> [asset_id |-> cat.base + k,
                                    symbol |-> SymbolOf(cat.base + k)]],
               sort_by, sort_order)

\* The faults a drain may meet: none, the transport raising on page p, or
\* page p answering without an items sequence.
NoFault == [kind |-> "none", page |-> 0]
Faults ==
    {NoFault} \cup {[kind |-> k, page |-> p] : k \in {"raise", "no_items"}, p \in 1..MaxPage}

\* The variants of the exchange's answers: envelope shape and id key.
Variants ==
    { [shape |-> "data_list", idKey |-> "asset_id"], [shape |-> "data_items", idKey |-> "id"],
      [shape |-> "data_data", idKey |-> "asset_id"], [shape |-> "bare_items", idKey |-> "id"] }

\* GET /futures?offset&limit: a transport failure, an answer without items,
\* or the slice of the catalog (plan.coll, in the order served) the offset
\* and limit ask for.
AssetsPage(plan, offset, limit) ==
    LET page == (offset \div limit) + 1
    IN IF plan.fault.page = page
       THEN IF plan.fault.kind = "raise" THEN [shape |-> "raise"]
            ELSE Envelope("no_items", <<>>)
       ELSE Envelope(plan.variant.shape,
                     [k \in 1..(Min(offset + limit, Len(plan.coll)) - offset) |->
                         AssetPayload(plan.coll[offset + k].asset_id, plan.variant.idKey)])

AssetsReq(offset, limit) ==
    [method |-> "GET", path |-> "/futures", offset |-> offset, limit |-> limit]

\* Mutant: a transport failure ends the drain with the pages read so far.
drain_returns_partial(all_items, sent) ==
    [outcome |-> "ok", result |-> all_items, reqs |-> sent]

\* self._get raising inside a drain loop: nothing catches it, the call ends
\* with the transport's error and returns nothing.
transport_raised(all_items, sent) == [outcome |-> "TransportError", reqs |-> sent]

\* The while loop of AssetsAPI.list_all.
RECURSIVE assets_drain(_, _, _, _)
assets_drain(plan, offset, all_assets, reqs) ==
    LET limit == PerPage
        response == AssetsPage(plan, offset, limit)
        items == ItemsOf(response)
        sent == Append(reqs, AssetsReq(offset, limit))
        extended == all_assets \o [k \in 1..Len(items) |-> AssetFromDict(items[k])]
    IN IF response.shape = "raise"
       THEN transport_raised(all_assets, sent)
       ELSE IF items = <<>>
       THEN [outcome |-> "ok", result |-> all_assets, reqs |-> sent]
       ELSE IF Len(items) < limit
       THEN [outcome |-> "ok", result |-> extended, reqs |-> sent]
       ELSE assets_drain(plan, offset + limit, extended, sent)

\* The class attribute AssetsAPI._assets_cache: nothing ever assigns it.
ClassAssetsCache == NoneV
ClassCacheSymbols == NoneV
Unset == [t |-> "unset"]

\* Mutant: one cache shared by every instance, as a class attribute assigned
\* through the class would be.
assets_cache_shared(i) ==
    IF \E j \in Instances : cache[j] \notin {Unset, NoneV}
    THEN cache[CHOOSE j \in Instances : cache[j] \notin {Unset, NoneV}]
    ELSE NoneV

\* self._assets_cache: the instance attribute when one was assigned, the
\* class attribute otherwise.
assets_cache(i) == IF cache[i] = Unset THEN ClassAssetsCache ELSE cache[i]
cache_symbols(i) == IF index[i] = Unset THEN ClassCacheSymbols ELSE index[i]

\* {a.symbol: a for a in all_assets}: a later asset replaces an earlier one
\* with the same symbol.
SymbolIndex(all_assets) ==
    LET n == Len(all_assets)
    IN [ s \in {all_assets[k].symbol : k \in 1..n} |->
           all_assets[CHOOSE k \in 1..n :
                        /\ all_assets[k].symbol = s
                        /\ \A j \in (k + 1)..n : all_assets[j].symbol # s] ]

\* Mutant: a filled cache is served even when a refresh is asked for.
list_all_cached_ignores_refresh(i, refresh) == assets_cache(i) # NoneV

\* list_all serves the call from the cache.
list_all_cached(i, refresh) == ~refresh /\ assets_cache(i) # NoneV

\* Mutant: the drained assets are appended to what the cache held.
list_all_store_merged(i, all_assets) ==
    IF assets_cache(i) # NoneV THEN assets_cache(i).v \o all_assets ELSE all_assets

\* The value list_all stores in _assets_cache after a drain.
list_all_store(i, all_assets) == all_assets

\* Mutant: a drain that fails invalidates what was cached.
kept_after_failure_cleared(old) == NoneV

\* _assets_cache and _cache_symbols after a drain that raised: the
\* exception leaves list_all before the two assignments.
kept_after_failure(old) == old

NoSort == [sort_by |-> "none", sort_order |-> "asc"]
Sorts == {NoSort, [sort_by |-> "symbol", sort_order |-> "asc"],
          [sort_by |-> "symbol", sort_order |-> "desc"]}
PlainVariant == [shape |-> "data_list", idKey |-> "asset_id"]

\* The circumstances of a drain: the sort asked for, the variant of the
\* exchange's answers and the fault met, varied one at a time.
Circumstances(sorts, faults) ==
    {[sort |-> s, variant |-> PlainVariant, fault |-> NoFault] : s \in sorts}
    \cup {[sort |-> NoSort, variant |-> v, fault |-> NoFault] : v \in Variants}
    \cup {[sort |-> NoSort, variant |-> PlainVariant, fault |-> f] : f \in faults}

ListAll(i, sorts, faults) ==
    /\ Idle
    /\ \E c \in Circumstances(sorts, faults), refresh \in BOOLEAN :
        LET call == [ op |-> "assets.list_all", inst |-> i, refresh |-> refresh,
                      sort |-> c.sort, fault |-> c.fault, cat |-> catalog,
                      held |-> lastDrain[i], shared |-> lastDrain[Process] ]
        IN /\ IF list_all_cached(i, refresh)
              THEN /\ last' = call @@ [ outcome |-> "ok", reqs |-> <<>>,
                                        result |-> SortAssets(assets_cache(i).v,
                                                     c.sort.sort_by, c.sort.sort_order) ]
                   /\ UNCHANGED <<cache, index, lastDrain>>
              ELSE LET d == assets_drain(
                              [ coll |-> CatalogSeq(catalog, c.sort.sort_by,
                                                    c.sort.sort_order),
                                variant |-> c.variant, fault |-> c.fault ], 0, <<>>, <<>>)
                   IN /\ last' = call @@ d
                      /\ IF d.outcome = "ok"
                         THEN /\ cache' = [cache EXCEPT
                                             ![i] = Some(list_all_store(i, d.result))]
                              /\ index' = [index EXCEPT
                                             ![i] = Some(SymbolIndex(
                                                           list_all_store(i, d.result)))]
                              /\ lastDrain' = [lastDrain EXCEPT ![i] = Some(d.result),
                                                                 ![Process] = Some(d.result)]
                         ELSE /\ cache' = [cache EXCEPT ![i] = kept_after_failure(@)]
                              /\ index' = [index EXCEPT ![i] = kept_after_failure(@)]
                              /\ UNCHANGED lastDrain
           /\ UNCHANGED <<exPositions, shown, catalog, history, thread>>

\* Mutant: the index is built from what the cache holds at that moment.
index_source_cache(i, all_assets) == assets_cache(i).v

\* The sequence the symbol index is built from: the local all_assets.
index_source(i, all_assets) == all_assets

\* list_all(refresh=True) run by a thread on the instance "a1", statement
\* by statement.  The while loop: the thread's own drain into all_assets.
ThreadDrain(t) ==
    /\ thread[t].pc = "idle"
    /\ LET d == assets_drain([ coll |-> CatalogSeq(catalog, "none", "asc"),
                               variant |-> PlainVariant, fault |-> NoFault ],
                             0, <<>>, <<>>)
       IN thread' = [thread EXCEPT ![t] = [pc |-> "store_cache", all_assets |-> d.result]]
    /\ UNCHANGED <<exPositions, shown, catalog, history, cache, index, lastDrain, last>>

\* self._assets_cache = all_assets
ThreadStoreCache(t) ==
    /\ thread[t].pc = "store_cache"
    /\ cache' = [cache EXCEPT !["a1"] = Some(list_all_store("a1", thread[t].all_assets))]
    /\ thread' = [thread EXCEPT ![t].pc = "store_index"]
    /\ UNCHANGED <<exPositions, shown, catalog, history, index, lastDrain, last>>

\* self._cache_symbols = {a.symbol: a for a in all_assets}
ThreadStoreIndex(t) ==
    /\ thread[t].pc = "store_index"
    /\ index' = [index EXCEPT
                   !["a1"] = Some(SymbolIndex(index_source("a1", thread[t].all_assets)))]
    /\ thread' = [thread EXCEPT ![t].pc = "return"]
    /\ UNCHANGED <<exPositions, shown, catalog, history, cache, lastDrain, last>>

\* return all_assets
ThreadReturn(t) ==
    /\ thread[t].pc = "return"
    /\ thread' = [thread EXCEPT ![t] = NoThreadCall]
    /\ UNCHANGED <<exPositions, shown, catalog, history, cache, index, lastDrain, last>>

\* AssetsAPI.clear_cache.
clear_cache_value(old) == NoneV

ClearCache(i) ==
    /\ Idle
    /\ cache' = [cache EXCEPT ![i] = clear_cache_value(cache[i])]
    /\ index' = [index EXCEPT ![i] = clear_cache_value(index[i])]
    /\ lastDrain' = [lastDrain EXCEPT ![i] = NoneV, ![Process] = NoneV]
    /\ last' = [op |-> "assets.clear_cache", inst |-> i, outcome |-> "ok", reqs |-> <<>>]
    /\ UNCHANGED <<exPositions, shown, catalog, history, thread>>

\* The exchange lists and delists instruments.
Catalogs ==
    { [base |-> 0, n |-> 0], [base |-> 0, n |-> 37], [base |-> 20, n |-> PerPage],
      [base |-> 20, n |-> 2 * PerPage + 37] }

\* The catalogs the cache is exercised with: empty, one page, two pages.
ListedCatalogs ==
    {[base |-> 0, n |-> 0], [base |-> 0, n |-> 37], [base |-> 20, n |-> PerPage + 37]}

CatalogChanges ==
    /\ Idle
    /\ \E c \in ListedCatalogs :
        /\ c # catalog
        /\ catalog' = c
        /\ UNCHANGED <<exPositions, shown, history, thread, cache, index, lastDrain, last>>

-----------------------------------------------------------------------------
(* The history collections: orders, positions, fees *)

NoneS == "None"
TruthyS(s) == s \notin {NoneS, ""}

\* The symbol of history record k; every fifth record names it under
\* "asset_id" only.
RecordSymbol(k) == IF k % 3 = 0 THEN "ETHUSDT" ELSE "BTCUSDT"

HistoryPayload(k) ==
    [ id |-> k,
      symbol |-> IF k % 5 = 0 THEN NoneS ELSE RecordSymbol(k),
      asset_id |-> IF k % 5 = 0 THEN RecordSymbol(k) ELSE "" ]

\* Order.from_dict, Position.from_dict, FeeRecord.from_dict: the symbol
\* falls back on asset_id.
RecordFromDict(data) ==
    [ id |-> data.id,
      symbol |-> IF data.symbol # NoneS THEN data.symbol ELSE data.asset_id,
      asset_id |-> data.asset_id ]

\* GET <history>?page&per_page: a transport failure, an answer without
\* items, or the page of the collection (records 1..plan.n).
HistoryPage(plan, page, per_page) ==
    LET from == (page - 1) * per_page
    IN IF plan.fault.page = page
       THEN IF plan.fault.kind = "raise" THEN [shape |-> "raise"]
            ELSE Envelope("no_items", <<>>)
       ELSE Envelope(plan.variant.shape,
                     [k \in 1..(Min(from + per_page, plan.n) - Min(from, plan.n)) |->
                         HistoryPayload(from + k)])

HistoryReq(path, page, per_page) ==
    [method |-> "GET", path |-> path, page |-> page, per_page |-> per_page]

\* An optional integer argument.
Cap(n) == [t |-> "int", v |-> n]

\* "if limit and len(all) >= limit": None and 0 are falsy.
limit_reached(limit, count) == limit # NoneV /\ limit.v # 0 /\ count >= limit.v

\* Mutant: the last page is not recognised; the loop goes on to the next.
page_is_last_never(items, per_page) == FALSE

\* "if len(items) < per_page: break"
page_is_last(items, per_page) == Len(items) < per_page

\* Mutant: a page is skipped after every full page.
next_page_skips_one(page) == page + 2

\* "page += 1"
next_page(page) == page + 1

\* The while loop of OrdersAPI.get_history.
RECURSIVE orders_get_history(_, _, _, _, _)
orders_get_history(plan, limit, page, all_orders, reqs) ==
    LET per_page == PerPage
        response == HistoryPage(plan, page, per_page)
        items == ItemsOf(response)
        sent == Append(reqs, HistoryReq("/futures/orders/history", page, per_page))
        extended == all_orders \o [k \in 1..Len(items) |-> RecordFromDict(items[k])]
    IN IF response.shape = "raise"
       THEN transport_raised(all_orders, sent)
       ELSE IF items = <<>>
       THEN [outcome |-> "ok", result |-> all_orders, reqs |-> sent]
       ELSE IF limit_reached(limit, Len(extended))
       THEN [outcome |-> "ok", result |-> Take(extended, limit.v), reqs |-> sent]
       ELSE IF page_is_last(items, per_page)
       THEN [outcome |-> "ok", result |-> extended, reqs |-> sent]
       ELSE orders_get_history(plan, limit, next_page(page), extended, sent)

\* The while loop of PositionsAPI.get_history.
RECURSIVE positions_get_history(_, _, _, _, _)
positions_get_history(plan, limit, page, all_positions, reqs) ==
    LET per_page == PerPage
        response == HistoryPage(plan, page, per_page)
        items == ItemsOf(response)
        sent == Append(reqs, HistoryReq("/futures/positions/history", page, per_page))
        extended == all_positions \o [k \in 1..Len(items) |-> RecordFromDict(items[k])]
    IN IF response.shape = "raise"
       THEN transport_raised(all_positions, sent)
       ELSE IF items = <<>>
       THEN [outcome |-> "ok", result |-> all_positions, reqs |-> sent]
       ELSE IF limit_reached(limit, Len(extended))
       THEN [outcome |-> "ok", result |-> Take(extended, limit.v), reqs |-> sent]
       ELSE IF page_is_last(items, per_page)
       THEN [outcome |-> "ok", result |-> extended, reqs |-> sent]
       ELSE positions_get_history(plan, limit, next_page(page), extended, sent)

\* "f.symbol == symbol or f.asset_id == symbol", applied when a symbol is given.
fee_matches(f, symbol) == TruthyS(symbol) => (f.symbol = symbol \/ f.asset_id = symbol)

\* The while loop of FeesAPI.get_history.
RECURSIVE fees_get_history(_, _, _, _, _, _)
fees_get_history(plan, limit, symbol, page, all_fees, reqs) ==
    LET per_page == PerPage
        response == HistoryPage(plan, page, per_page)
        items == ItemsOf(response)
        sent == Append(reqs, HistoryReq("/futures/fee/history", page, per_page))
        fees == SelectSeq([k \in 1..Len(items) |-> RecordFromDict(items[k])],
                          LAMBDA f : fee_matches(f, symbol))
        extended == all_fees \o fees
    IN IF response.shape = "raise"
       THEN transport_raised(all_fees, sent)
       ELSE IF items = <<>>
       THEN [outcome |-> "ok", result |-> all_fees, reqs |-> sent]
       ELSE IF limit_reached(limit, Len(extended))
       THEN [outcome |-> "ok", result |-> Take(extended, limit.v), reqs |-> sent]
       ELSE IF page_is_last(items, per_page)
       THEN [outcome |-> "ok", result |-> extended, reqs |-> sent]
       ELSE fees_get_history(plan, limit, symbol, next_page(page), all_fees \o fees, sent)

\* The caps a caller asks for.
Limits == {NoneV, Cap(0), Cap(1), Cap(50), Cap(PerPage), Cap(PerPage + 50), Cap(3 * PerPage)}

HistoryCircumstances ==
    {[variant |-> v, fault |-> NoFault] : v \in Variants}
    \cup {[variant |-> PlainVariant, fault |-> f] : f \in Faults}

HistoryCall(op, limit, symbol, c) ==
    [ op |-> op, limit |-> limit, symbol |-> symbol, fault |-> c.fault, n |-> history ]

OrdersGetHistory ==
    /\ Idle
    /\ \E limit \in Limits, c \in HistoryCircumstances :
        /\ last' = HistoryCall("orders.get_history", limit, NoneS, c)
                   @@ orders_get_history([n |-> history, variant |-> c.variant,
                                          fault |-> c.fault], limit, 1, <<>>, <<>>)
        /\ UNCHANGED <<exPositions, shown, catalog, history, thread, cache, index,
                     lastDrain>>

PositionsGetHistory ==
    /\ Idle
    /\ \E limit \in Limits, c \in HistoryCircumstances :
        /\ last' = HistoryCall("positions.get_history", limit, NoneS, c)
                   @@ positions_get_history([n |-> history, variant |-> c.variant,
                                             fault |-> c.fault], limit, 1, <<>>, <<>>)
        /\ UNCHANGED <<exPositions, shown, catalog, history, thread, cache, index,
                     lastDrain>>

FeesGetHistory ==
    /\ Idle
    /\ \E limit \in Limits, symbol \in {NoneS, "", "BTCUSDT", "ETHUSDT"},
       c \in HistoryCircumstances :
        /\ last' = HistoryCall("fees.get_history", limit, symbol, c)
                   @@ fees_get_history([n |-> history, variant |-> c.variant,
                                        fault |-> c.fault], limit, symbol, 1, <<>>, <<>>)
        /\ UNCHANGED <<exPositions, shown, catalog, history, thread, cache, index,
                     lastDrain>>

\* The remote collections the drains are run against.
HistorySizes == {0, 37, PerPage, 2 * PerPage + 37}

-----------------------------------------------------------------------------
(* Order construction *)

\* float(s): the value of a decimal string, in thousandths; None raises
\* TypeError, an empty or non-numeric string ValueError.
CanFloat(s) == s.t = "num"
FloatError(s) == IF s.t = "none" THEN "TypeError" ELSE "ValueError"

\* round(x / y) for integers x, y > 0: the nearest integer, a tie going to
\* the even one.
RoundHalfEven(x, y) ==
    LET q == x \div y
        r == x % y
    IN IF 2 * r < y THEN q
       ELSE IF 2 * r > y THEN q + 1
       ELSE IF q % 2 = 0 THEN q ELSE q + 1

Pow10(d) == CASE d = 0 -> 1 [] d = 1 -> 10 [] d = 2 -> 100 [] d = 3 -> 1000

\* round(v, precision) on a value in thousandths.
RoundDigits(v, precision) ==
    IF precision >= 3 THEN v
    ELSE RoundHalfEven(v, Pow10(3 - precision)) * Pow10(3 - precision)

\* len(str(step).split('.')[-1]) for a float step: str() always shows a
\* fractional part ("1.0", "0.1", "0.25").
FloatPrecision(step) ==
    IF step % 100 = 0 THEN 1 ELSE IF step % 10 = 0 THEN 2 ELSE 3

\* The same for the step as the payload's string: "1" has no fractional part.
StringPrecision(step) ==
    IF step % 1000 = 0 THEN 0
    ELSE IF step % 100 = 0 THEN 1 ELSE IF step % 10 = 0 THEN 2 ELSE 3

\* The raw quantities (thousandths) whose binary64 quotient by the step 0.1
\* lies just below a tie k + 0.5 that the decimal quotient hits exactly: the
\* binary64 nearest to 0.1 is above 0.1, and for these the division rounds
\* down (0.15 / 0.1 = 1.4999999999999998).  The steps 0.25, 0.5 and 1 are
\* exact in binary64.
QuotientBelowTie(raw, step) ==
    step = 100 /\ raw \in {150, 350, 950, 1150, 2150, 2550}

\* round(raw / step) on binary64 values.
RoundQuotient(raw, step) ==
    IF QuotientBelowTie(raw, step) THEN raw \div step ELSE RoundHalfEven(raw, step)

\* round(raw / step) * step, rounded to the step's precision.
round_to_step(raw, step, precision) ==
    RoundDigits(RoundQuotient(raw, step) * step, precision)

\* The multiples k of the step 0.1 for which the binary64 nearest to k * 0.1
\* is smaller than k times the binary64 nearest to 0.1 (0.3 is
\* 0.299999999999999988..., 3 * 0.1000000000000000055... is more).
Binary64BelowMultiple(k, step) ==
    step = 100 /\ k \in { 3, 5, 6, 7, 9, 10, 12, 13, 14, 15, 17, 18, 19, 20, 21,
                          23, 24, 25, 26, 28, 29, 30 }

\* quantity % quantity_step on binary64 values, in millionths, for a
\* quantity >= 0: the remainder of the decimal values, except that a
\* quantity which is k steps in decimal but falls below k binary64 steps
\* leaves a remainder just short of a whole step (0.3 % 0.1 is
\* 0.09999999999999998); "just short" is one millionth here.
float_mod(quantity, step) ==
    IF quantity % step # 0 THEN (quantity % step) * 1000
    ELSE IF Binary64BelowMultiple(quantity \div step, step) THEN step * 1000 - 1
    ELSE 0

\* validate_quantity: abs(quantity % quantity_step) < quantity_step * 0.01,
\* True for a step of zero.
validate_quantity(quantity, quantity_step) ==
    \/ quantity_step = 0
    \/ float_mod(quantity, quantity_step) < quantity_step * 10

\* Asset.from_dict on the fields order construction reads: an absent
\* quantity_step or min_quantity becomes "0"; price_step and price stay None.
OrderAssetFromDict(data) ==
    [ quantity_step |-> IF data.quantity_step = NoneV THEN Num(0) ELSE data.quantity_step,
      min_quantity |-> IF data.min_quantity = NoneV THEN Num(0) ELSE data.min_quantity,
      price_step |-> data.price_step,
      price |-> data.price ]

\* What the exchange may answer to GET /futures/{identifier}.
AssetSpecs ==
    { [quantity_step |-> Num(100), min_quantity |-> Num(100),
       price_step |-> Num(500), price |-> Num(2000)],
      [quantity_step |-> NoneV, min_quantity |-> Num(1000),
       price_step |-> NoneV, price |-> Num(2000)],
      [quantity_step |-> Num(1000), min_quantity |-> Num(5000),
       price_step |-> NoneV, price |-> NoneV],
      [quantity_step |-> Num(100), min_quantity |-> Num(250),
       price_step |-> Num(1000), price |-> Num(0)],
      [quantity_step |-> Num(100), min_quantity |-> Num(100),
       price_step |-> BadS, price |-> Num(2000)] }

Lookups ==
    {[kind |-> "ok", data |-> a] : a \in AssetSpecs}
    \cup {[kind |-> "not_found"], [kind |-> "error"]}

\* Mutant: the legacy asset id is preferred to the symbol.
resolve_identifier_id_first(symbol, asset_id) ==
    IF TruthyS(asset_id) THEN [ok |-> TRUE, identifier |-> asset_id, use_symbol |-> FALSE]
    ELSE IF TruthyS(symbol)
    THEN [ok |-> TRUE, identifier |-> symbol, use_symbol |-> TRUE]
    ELSE [ok |-> FALSE]

\* OrdersAPI._resolve_identifier: (identifier, use_symbol), or no identifier.
resolve_identifier(symbol, asset_id) ==
    IF TruthyS(symbol) THEN [ok |-> TRUE, identifier |-> symbol, use_symbol |-> TRUE]
    ELSE IF TruthyS(asset_id)
    THEN [ok |-> TRUE, identifier |-> asset_id, use_symbol |-> FALSE]
    ELSE [ok |-> FALSE]

\* assets.get(identifier) or assets.get_by_id(identifier).
AssetReq(identifier, use_symbol) ==
    [ method |-> "GET", path |-> "/futures/{id}", id |-> identifier,
      use_symbol |-> use_symbol ]

OrderReq(identifier, use_symbol, body) ==
    [ method |-> "POST", path |-> "/futures/{id}/order", id |-> identifier,
      use_symbol |-> use_symbol, body |-> body ]

\* side.upper()
Upper(side) ==
    CASE side \in {"long", "Long", "LONG"} -> "LONG"
      [] side \in {"short", "Short", "SHORT"} -> "SHORT"
      [] side = "buy" -> "BUY"
      [] OTHER -> side

\* The quantity step of the try block: rounds the quantity, or raises.
create_order_quantity(asset, quantity) ==
    LET quantity_step == asset.quantity_step.u
        min_qty == IF Truthy(asset.min_quantity) THEN asset.min_quantity.u ELSE 0
    IN IF ~Truthy(asset.quantity_step) THEN [raised |-> FALSE, quantity |-> quantity]
       ELSE IF ~CanFloat(asset.quantity_step) THEN [raised |-> TRUE]
       ELSE IF quantity_step > 0
       THEN IF ~CanFloat(quantity) THEN [raised |-> TRUE]
            ELSE IF Truthy(asset.min_quantity) /\ ~CanFloat(asset.min_quantity)
            THEN [raised |-> TRUE]
            ELSE IF quantity.u < min_qty THEN [raised |-> TRUE, below_min |-> TRUE]
            ELSE [ raised |-> FALSE,
                   quantity |-> Num(round_to_step(quantity.u, quantity_step,
                                                  FloatPrecision(quantity_step))) ]
       ELSE [raised |-> FALSE, quantity |-> quantity]

\* The price step of the try block: rounds the limit price, or raises.
create_order_price(asset, price) ==
    IF Truthy(price) /\ Truthy(asset.price_step)
    THEN IF ~CanFloat(asset.price_step) THEN [raised |-> TRUE]
         ELSE IF asset.price_step.u > 0
         THEN IF ~CanFloat(price) THEN [raised |-> TRUE]
              ELSE [ raised |-> FALSE,
                     price |-> Num(round_to_step(price.u, asset.price_step.u,
                                                 StringPrecision(asset.price_step.u))) ]
         ELSE [raised |-> FALSE, price |-> price]
    ELSE [raised |-> FALSE, price |-> price]

\* Mutant: an unknown identifier is swallowed like every other failure.
create_order_rounding_swallows_all(lookup, quantity, price) ==
    [not_found |-> FALSE, quantity |-> quantity, price |-> price]

\* The try/except of _create_order: the quantity and price that leave it,
\* or the not-found error.  Any other exception raised inside the try block
\* is caught and the values assigned so far are kept.
create_order_rounding(lookup, quantity, price) ==
    IF lookup.kind = "not_found" THEN [not_found |-> TRUE]
    ELSE IF lookup.kind = "error"
    THEN [not_found |-> FALSE, quantity |-> quantity, price |-> price]
    ELSE LET asset == OrderAssetFromDict(lookup.data)
             q == create_order_quantity(asset, quantity)
             p == create_order_price(asset, price)
         IN IF q.raised
            THEN [not_found |-> FALSE, quantity |-> quantity, price |-> price]
            ELSE IF p.raised
            THEN [not_found |-> FALSE, quantity |-> q.quantity, price |-> price]
            ELSE [not_found |-> FALSE, quantity |-> q.quantity, price |-> p.price]

\* OrderRequest.to_dict: the body put on the wire, or the exception float()
\* raises.
Placeholder == Num(999999999)

\* Mutant: the flag goes on the wire whenever it is set, the price only when
\* it is not empty.
risk_keys_flag_alone(flag, price) ==
    [ flag |-> IF flag THEN Some(TRUE) ELSE NoneV,
      price |-> IF flag /\ Truthy(price) THEN Some(price.u) ELSE NoneV ]

\* The two keys of a stop-loss or take-profit pair in the body: the flag
\* and the price, NoneV for a key that is left out.
risk_keys(flag, price) ==
    IF flag /\ Truthy(price) THEN [flag |-> Some(TRUE), price |-> Some(price.u)]
    ELSE [flag |-> NoneV, price |-> NoneV]

to_dict(request) ==
    IF ~CanFloat(request.leverage) THEN [error |-> FloatError(request.leverage)]
    ELSE IF ~CanFloat(request.quantity) THEN [error |-> FloatError(request.quantity)]
    ELSE IF Truthy(request.order_price) /\ ~CanFloat(request.order_price)
    THEN [error |-> "ValueError"]
    ELSE IF request.is_stoploss /\ Truthy(request.stoploss_price)
            /\ ~CanFloat(request.stoploss_price)
    THEN [error |-> "ValueError"]
    ELSE IF request.is_takeprofit /\ Truthy(request.takeprofit_price)
            /\ ~CanFloat(request.takeprofit_price)
    THEN [error |-> "ValueError"]
    ELSE [ error |-> "none",
           body |-> [ leverage |-> request.leverage.u,
                      quantity |-> request.quantity.u,
                      order_type |-> request.order_type,
                      trigger_type |-> request.trigger_type,
                      order_price |-> IF Truthy(request.order_price)
                                      THEN Some(request.order_price.u) ELSE NoneV,
                      is_stoploss |->
                          risk_keys(request.is_stoploss, request.stoploss_price).flag,
                      stoploss_price |->
                          risk_keys(request.is_stoploss, request.stoploss_price).price,
                      is_takeprofit |->
                          risk_keys(request.is_takeprofit, request.takeprofit_price).flag,
                      takeprofit_price |->
                          risk_keys(request.is_takeprofit, request.takeprofit_price).price ] ]

\* Mutant: the fields the response echoes are kept, the identifier fills in
\* only the missing ones.
injected_where_missing(identifier, use_symbol, post) ==
    [ asset_id |-> IF post.asset_id # NoneS THEN post.asset_id ELSE identifier,
      symbol |-> IF post.symbol # NoneS THEN post.symbol ELSE identifier ]

\* data["asset_id"] = identifier;
\* data["symbol"] = identifier if use_symbol else data.get("symbol", identifier)
injected(identifier, use_symbol, post) ==
    [ asset_id |-> identifier,
      symbol |-> IF use_symbol THEN identifier
                 ELSE IF post.symbol # NoneS THEN post.symbol
                 ELSE identifier ]

\* The end of _create_order and of create: the POST, and the Order built
\* from the answer with the identifier written into it.  echo is what the
\* answer carried for the two fields.
submit_order(identifier, use_symbol, request, reqs, post) ==
    LET wire == to_dict(request)
        sent == Append(reqs, OrderReq(identifier, use_symbol, wire.body))
    IN IF wire.error # "none" THEN [outcome |-> wire.error, reqs |-> reqs]
       ELSE IF post.kind = "raise" THEN [outcome |-> "TransportError", reqs |-> sent]
       ELSE [ outcome |-> "ok", reqs |-> sent,
              echo |-> [asset_id |-> post.asset_id, symbol |-> post.symbol],
              result |-> [ asset_id |-> injected(identifier, use_symbol, post).asset_id,
                           symbol |-> injected(identifier, use_symbol, post).symbol,
                           quantity |-> wire.body.quantity ] ]

\* identifier[:3], the prefix the not-found message suggests searching for.
Prefix3(identifier) ==
    CASE identifier = "BTCUSDT" -> "BTC"
      [] identifier = "a-01" -> "a-0"
      [] OTHER -> identifier

\* Mutant: the asset is looked up before the arguments are validated.
create_order_checks_late(a, reqs) ==
    Append(reqs, AssetReq("BTCUSDT", TRUE))

\* The requests _create_order has issued when it validates side and quantity.
create_order_checks(a, reqs) == reqs

\* Mutant: an order without a price gets the placeholder whatever its trigger.
order_price_any_trigger(price, trigger_type) ==
    IF price = NoneV THEN Placeholder ELSE price

\* The price of the OrderRequest: the placeholder for a MARKET order that
\* has none.
order_price(price, trigger_type) ==
    IF price = NoneV /\ trigger_type = "MARKET" THEN Placeholder ELSE price

\* OrdersAPI._create_order.  a: the arguments; env: the exchange's answers.
create_order(identifier, use_symbol, a, trigger_type, reqs, env) ==
    LET rounded == create_order_rounding(env.lookup, a.quantity, a.price)
        looked == Append(reqs, AssetReq(identifier, use_symbol))
        price == order_price(rounded.price, trigger_type)
        request == [ quantity |-> rounded.quantity, order_type |-> Upper(a.side),
                     trigger_type |-> trigger_type, leverage |-> a.leverage,
                     order_price |-> price,
                     is_stoploss |-> a.stoploss_price # NoneV,
                     stoploss_price |-> a.stoploss_price,
                     is_takeprofit |-> a.takeprofit_price # NoneV,
                     takeprofit_price |-> a.takeprofit_price ]
    IN IF ~TruthyS(a.side)
       THEN [outcome |-> "ValueError", why |-> "side", reqs |-> create_order_checks(a, reqs)]
       ELSE IF ~Truthy(a.quantity)
       THEN [ outcome |-> "ValueError", why |-> "quantity",
              reqs |-> create_order_checks(a, reqs) ]
       ELSE IF Upper(a.side) \notin {"LONG", "SHORT"}
       THEN [outcome |-> "ValueError", why |-> "side", reqs |-> create_order_checks(a, reqs)]
       ELSE IF rounded.not_found
       THEN [ outcome |-> "ValueError", why |-> "not_found",
              search |-> Prefix3(identifier), reqs |-> looked ]
       ELSE submit_order(identifier, use_symbol, request, looked, env.post)

\* OrdersAPI.create_market_order and create_limit_order.
create_order_entry(a, trigger_type, reqs, env) ==
    LET r == resolve_identifier(a.symbol, a.asset_id)
    IN IF ~r.ok THEN [outcome |-> "ValueError", why |-> "identifier", reqs |-> reqs]
       ELSE create_order(r.identifier, r.use_symbol, a, trigger_type, reqs, env)

create_market_order(a, reqs, env) ==
    create_order_entry([a EXCEPT !.price = NoneV], "MARKET", reqs, env)

create_limit_order(a, reqs, env) == create_order_entry(a, "LIMIT", reqs, env)

\* calculate_order_from_usd: the quantity for a USD amount, or the
\* ZeroDivisionError of a zero price or a zero step.  A raw quantity
\* usd_amount / price that is a whole number of thousandths is divided by
\* the step as round_to_step divides it.
calculate_order_from_usd(usd_amount, price, quantity_step) ==
    IF price = 0 \/ quantity_step = 0 THEN [error |-> "ZeroDivisionError"]
    ELSE [ error |-> "none",
           quantity |-> RoundDigits(
                          (IF (1000 * usd_amount) % price = 0
                           THEN RoundQuotient((1000 * usd_amount) \div price, quantity_step)
                           ELSE RoundHalfEven(1000 * usd_amount, price * quantity_step))
                          * quantity_step,
                          FloatPrecision(quantity_step)) ]

\* Mutant: only a negative derived quantity is refused.
quantity_refused_negative_only(qty) == qty < 0

\* The test create_market_order_with_amount applies to the derived quantity.
quantity_refused(qty) == qty <= 0

\* OrdersAPI.create_market_order_with_amount.  env.first is the answer to
\* its own asset lookup.
create_market_order_with_amount(a, env) ==
    LET r == resolve_identifier(a.symbol, a.asset_id)
        looked == <<AssetReq(r.identifier, r.use_symbol)>>
        asset == OrderAssetFromDict(env.first.data)
        step == IF Truthy(asset.quantity_step) THEN asset.quantity_step.u ELSE 0
        calc == calculate_order_from_usd(a.quantity.u, asset.price.u, step)
    IN IF ~r.ok THEN [outcome |-> "ValueError", why |-> "identifier", reqs |-> <<>>]
       ELSE IF env.first.kind # "ok" THEN [outcome |-> "TransportError", reqs |-> looked]
       ELSE IF ~Truthy(asset.price)
       THEN [outcome |-> "ValueError", why |-> "price", reqs |-> looked]
       ELSE IF ~CanFloat(asset.price) \/ ~CanFloat(a.quantity)
               \/ (Truthy(asset.quantity_step) /\ ~CanFloat(asset.quantity_step))
       THEN [outcome |-> "ValueError", why |-> "amount", reqs |-> looked]
       ELSE IF calc.error # "none" THEN [outcome |-> calc.error, reqs |-> looked]
       ELSE IF quantity_refused(calc.quantity)
       THEN IF ~CanFloat(asset.min_quantity)
            THEN [outcome |-> "ValueError", why |-> "float", reqs |-> looked]
            ELSE [ outcome |-> "ValueError", why |-> "zero",
                   minimum |-> asset.min_quantity.u * asset.price.u, reqs |-> looked ]
       ELSE create_market_order(
              [a EXCEPT !.symbol = IF r.use_symbol THEN r.identifier ELSE NoneS,
                        !.asset_id = IF r.use_symbol THEN NoneS ELSE r.identifier,
                        !.quantity = Num(calc.quantity)],
              looked, env)

\* OrdersAPI.create: the caller's OrderRequest posted as it is.
create(a, env) ==
    LET r == resolve_identifier(a.symbol, a.asset_id)
    IN IF ~r.ok THEN [outcome |-> "ValueError", why |-> "identifier", reqs |-> <<>>]
       ELSE submit_order(r.identifier, r.use_symbol,
                         [ quantity |-> a.quantity, order_type |-> a.side,
                           trigger_type |-> "MARKET", leverage |-> a.leverage,
                           order_price |-> a.price,
                           is_stoploss |-> a.stoploss_price # NoneV,
                           stoploss_price |-> a.stoploss_price,
                           is_takeprofit |-> a.takeprofit_price # NoneV,
                           takeprofit_price |-> a.takeprofit_price ],
                         <<>>, env.post)

\* The rounding rule and validate_quantity applied to raw quantities of up
\* to MaxSteps steps of 0.1, at the steps 0.1, 0.25 and 1.
RawQuantities == {10 * n : n \in 0..(10 * MaxSteps + 4)}
QuantitySteps == {100, 250, 1000}

RoundToStep ==
    /\ Idle
    /\ \E raw \in RawQuantities, step \in QuantitySteps :
        LET rounded == round_to_step(raw, step, FloatPrecision(step))
        IN /\ last' = [ op |-> "round_to_step", raw |-> raw, step |-> step,
                        outcome |-> "ok", reqs |-> <<>>, result |-> rounded,
                        valid |-> validate_quantity(rounded, step) ]
           /\ UNCHANGED <<exPositions, shown, catalog, history, thread, cache, index,
                     lastDrain>>

\* calculate_order_from_usd for a USD amount at a price of 2 or 0.5.
CalculateOrderFromUsd ==
    /\ Idle
    /\ \E usd \in RawQuantities, price \in {500, 2000}, step \in QuantitySteps :
        LET calc == calculate_order_from_usd(usd, price, step)
        IN /\ calc.quantity <= 30 * step
           /\ last' = [ op |-> "calculate_order_from_usd", raw |-> usd, price |-> price,
                        step |-> step, outcome |-> "ok", reqs |-> <<>>,
                        result |-> calc.quantity,
                        valid |-> validate_quantity(calc.quantity, step) ]
           /\ UNCHANGED <<exPositions, shown, catalog, history, thread, cache, index,
                     lastDrain>>

\* The arguments callers pass.
Symbols == {NoneS, "", "BTCUSDT"}
AssetIds == {NoneS, "", "a-01"}
Sides == {NoneS, "", "LONG", "short", "buy"}
Quantities ==
    {NoneV, EmptyS, BadS, Num(-40), Num(0), Num(40), Num(250), Num(1040), Num(5000)}
Prices == {NoneV, BadS, Num(1234)}
Posts ==
    { [kind |-> "raise"],
      [kind |-> "ok", symbol |-> NoneS, asset_id |-> NoneS],
      [kind |-> "ok", symbol |-> "ETHUSDT", asset_id |-> NoneS],
      [kind |-> "ok", symbol |-> NoneS, asset_id |-> "a-99"] }

\* Stop-loss and take-profit prices: none, the empty string, or a price.
RiskPrices == {NoneV, EmptyS, Num(1500)}

\* The arguments of one plain order, on which the risk prices are varied.
PlainOrder(a) ==
    /\ a.symbol = "BTCUSDT"
    /\ a.asset_id = NoneS
    /\ a.side = "LONG"
    /\ a.quantity = Num(1040)

OrderArgs ==
    [ symbol : Symbols, asset_id : AssetIds, side : Sides, quantity : Quantities,
      price : Prices, leverage : {Num(1000)}, stoploss_price : RiskPrices,
      takeprofit_price : RiskPrices ]

NoRisk(a) == a.stoploss_price = NoneV /\ a.takeprofit_price = NoneV

MarketArgs ==
    {a \in OrderArgs : a.price = NoneV
                       /\ (PlainOrder(a) \/ a.takeprofit_price = NoneV)
                       /\ (PlainOrder(a) \/ a.stoploss_price \in {NoneV, Num(1500)})}
LimitArgs == {a \in OrderArgs : PlainOrder(a) \/ NoRisk(a)}
AmountArgs == {a \in OrderArgs : a.price = NoneV /\ (PlainOrder(a) \/ NoRisk(a))}
RequestArgs ==
    {a \in OrderArgs : a.side = "LONG" /\ a.quantity.t = "num"
                       /\ (PlainOrder(a) \/ NoRisk(a))}

CreateMarketOrder ==
    /\ Idle
    /\ \E a \in MarketArgs, lookup \in Lookups, post \in Posts :
        /\ last' = [op |-> "orders.create_market_order", args |-> a, lookup |-> lookup]
                   @@ create_market_order(a, <<>>, [lookup |-> lookup, post |-> post])
        /\ UNCHANGED <<exPositions, shown, catalog, history, thread, cache, index,
                     lastDrain>>

CreateLimitOrder ==
    /\ Idle
    /\ \E a \in LimitArgs, lookup \in Lookups, post \in Posts :
        /\ last' = [op |-> "orders.create_limit_order", args |-> a, lookup |-> lookup]
                   @@ create_limit_order(a, <<>>, [lookup |-> lookup, post |-> post])
        /\ UNCHANGED <<exPositions, shown, catalog, history, thread, cache, index,
                     lastDrain>>

CreateMarketOrderWithAmount ==
    /\ Idle
    /\ \E a \in AmountArgs, first \in Lookups, lookup \in Lookups, post \in Posts :
        /\ lookup \in {first, [kind |-> "error"]}
        /\ last' = [ op |-> "orders.create_market_order_with_amount", args |-> a,
                     lookup |-> first ]
                   @@ create_market_order_with_amount(
                        a, [first |-> first, lookup |-> lookup, post |-> post])
        /\ UNCHANGED <<exPositions, shown, catalog, history, thread, cache, index,
                     lastDrain>>

Create ==
    /\ Idle
    /\ \E a \in RequestArgs, post \in Posts :
        /\ last' = [op |-> "orders.create", args |-> a, lookup |-> [kind |-> "none"]]
                   @@ create(a, [post |-> post])
        /\ UNCHANGED <<exPositions, shown, catalog, history, thread, cache, index,
                     lastDrain>>

-----------------------------------------------------------------------------
(* Batch operations: cancel_all and close_all *)

\* The open orders of the exchange, in the order it lists them, and what
\* their payloads carry; the payload of "o3" has no symbol.
OrderIds == <<"o1", "o2", "o3">>

OrderPayload(o) ==
    [ id |-> o,
      asset_id |-> IF o = "o2" THEN "a-02" ELSE "a-01",
      symbol |-> CASE o = "o1" -> "BTCUSDT" [] o = "o2" -> "ETHUSDT" [] OTHER -> NoneS ]

\* The payload of an open position: its symbol, asset id and unrealized PnL.
BatchPositionPayload(p, pnl) ==
    [ id |-> p,
      asset_id |-> IF p = "p2" THEN "a-02" ELSE "a-01",
      symbol |-> IF p = "p2" THEN "ETHUSDT" ELSE "BTCUSDT",
      unrealized_pnl |-> pnl[p] ]

PnLs == {Num(5000), Num(0), BadS}

\* Order.from_dict / Position.from_dict on the fields the batch operations
\* read: a payload without a symbol takes its asset id as the symbol.
BatchItemFromDict(data) ==
    [data EXCEPT !.symbol = IF data.symbol # NoneS THEN data.symbol ELSE data.asset_id]

\* OrdersAPI.list_open after the GET.
orders_list_open(resp) ==
    LET items == ItemsOf(resp)
    IN [k \in 1..Len(items) |-> BatchItemFromDict(items[k])]

\* Position.is_profitable: float(unrealized_pnl) > 0, False when it is not a
\* number.
is_profitable(p) == CanFloat(p.unrealized_pnl) /\ p.unrealized_pnl.u > 0

\* The symbol filter of cancel_all and close_all.
symbol_filter(items, symbol) ==
    IF TruthyS(symbol)
    THEN SelectSeq(items, LAMBDA o : o.symbol = symbol \/ o.asset_id = symbol)
    ELSE items

profitable_filter(items, profitable_only) ==
    IF profitable_only THEN SelectSeq(items, is_profitable) ELSE items

\* What the exchange may answer to the cancel or close of one item: success,
\* a body whose success is false or missing, or an error the transport raises.
Answers == {"ok", "refused", "raise"}

\* OrdersAPI.cancel and PositionsAPI.close after the request:
\* response.get("success", False), or the transport's exception.
item_result(answer) ==
    IF answer = "raise" THEN [raised |-> TRUE]
    ELSE [raised |-> FALSE, value |-> answer = "ok"]

\* Mutant: every item whose request did not raise is counted.
item_counted_unless_raised(r) == ~r.raised

\* try: if self.cancel(...): cancelled += 1 / except Exception: pass
item_counted(r) == ~r.raised /\ r.value

\* The loop of cancel_all and close_all over the filtered items: one request
\* per item, in order, whatever the earlier ones answered.
RECURSIVE batch_loop(_, _, _, _, _, _)
batch_loop(items, k, answers, request, count, reqs) ==
    IF k > Len(items) THEN [outcome |-> "ok", result |-> count, reqs |-> reqs]
    ELSE LET id == items[k].id
             r == item_result(answers[id])
         IN batch_loop(items, k + 1, answers, request,
                       IF item_counted(r) THEN count + 1 ELSE count,
                       Append(reqs, ReqId(request.method, request.path, id)))

\* OrdersAPI.cancel_all.
cancel_all(resp, symbol, answers) ==
    LET listed == <<Req("GET", "/futures/orders")>>
    IN IF resp = NoneV THEN [outcome |-> "TransportError", reqs |-> listed]
       ELSE batch_loop(symbol_filter(orders_list_open(resp), symbol), 1, answers,
                       Req("DELETE", "/futures/orders/{id}"), 0, listed)

\* PositionsAPI.close_all.
close_all(resp, symbol, profitable_only, answers) ==
    LET listed == <<Req("GET", "/futures/positions")>>
        positions == IF ItemsOf(resp) = <<>> THEN <<>>
                     ELSE [k \in 1..Len(ItemsOf(resp)) |-> BatchItemFromDict(ItemsOf(resp)[k])]
    IN IF resp = NoneV THEN [outcome |-> "TransportError", reqs |-> listed]
       ELSE batch_loop(profitable_filter(symbol_filter(positions, symbol), profitable_only),
                       1, answers, Req("POST", "/futures/positions/{id}/close"), 0, listed)

\* The open orders the exchange may list: any of the three, in its order.
OpenOrderLists ==
    {SelectSeq(OrderIds, LAMBDA o : o \in S) : S \in SUBSET {"o1", "o2", "o3"}}

BatchSymbols == {NoneS, "", "BTCUSDT", "a-01", "XRPUSDT"}

CancelAll ==
    /\ Idle
    /\ \E open \in OpenOrderLists, symbol \in BatchSymbols,
          answers \in [{"o1", "o2", "o3"} -> Answers],
          shape \in {"data_list", "data_items", "raise"} :
        LET items == [k \in 1..Len(open) |-> OrderPayload(open[k])]
            resp == IF shape = "raise" THEN NoneV ELSE Envelope(shape, items)
        IN /\ last' = [ op |-> "orders.cancel_all", symbol |-> symbol,
                        profitable_only |-> FALSE, items |-> items,
                        answers |-> answers, listed |-> shape # "raise" ]
                      @@ cancel_all(resp, symbol, answers)
           /\ UNCHANGED <<exPositions, shown, catalog, history, thread, cache, index,
                     lastDrain>>

\* close_all against the open positions of the exchange; the exchange closes
\* the positions whose close it answers with success.
CloseAll ==
    /\ Idle
    /\ \E symbol \in BatchSymbols, profitable_only \in BOOLEAN,
          pnl \in [PosIds -> PnLs], answers \in [PosIds -> Answers],
          shape \in {"data_list", "data_items", "raise"} :
        LET open == OpenSeq(exPositions)
            items == [k \in 1..Len(open) |-> BatchPositionPayload(open[k], pnl)]
            resp == IF shape = "raise" THEN NoneV ELSE Envelope(shape, items)
            call == close_all(resp, symbol, profitable_only, answers)
            closed == {call.reqs[k].id : k \in 2..Len(call.reqs)}
        IN /\ last' = [ op |-> "positions.close_all", symbol |-> symbol,
                        profitable_only |-> profitable_only, items |-> items,
                        answers |-> answers, listed |-> shape # "raise" ]
                      @@ call
           /\ exPositions' = [p \in PosIds |->
                                IF p \in closed /\ answers[p] = "ok" THEN 0
                                ELSE exPositions[p]]
           /\ UNCHANGED <<shown, catalog, history, thread, cache, index, lastDrain>>

-----------------------------------------------------------------------------
(* Error mapping: raise_for_error *)

\* ERROR_CODE_MAP.get(code, MudrexAPIError)
ERROR_CODE_MAP(code) ==
    CASE code \in {"UNAUTHORIZED", "FORBIDDEN", "INVALID_API_KEY", "API_KEY_EXPIRED"}
           -> "MudrexAuthenticationError"
      [] code \in {"RATE_LIMIT_EXCEEDED", "TOO_MANY_REQUESTS"} -> "MudrexRateLimitError"
      [] code \in {"INVALID_REQUEST", "VALIDATION_ERROR", "BAD_REQUEST", "INVALID_PARAMETER"}
           -> "MudrexValidationError"
      [] code \in {"NOT_FOUND", "ASSET_NOT_FOUND", "ORDER_NOT_FOUND", "POSITION_NOT_FOUND"}
           -> "MudrexNotFoundError"
      [] code \in {"CONFLICT", "DUPLICATE"} -> "MudrexConflictError"
      [] code \in {"SERVER_ERROR", "INTERNAL_ERROR", "SERVICE_UNAVAILABLE"}
           -> "MudrexServerError"
      [] code \in {"INSUFFICIENT_BALANCE", "INSUFFICIENT_MARGIN", "INSUFFICIENT_FUNDS"}
           -> "MudrexInsufficientBalanceError"
      [] code \in {"ORDER_REJECTED", "ORDER_FAILED"} -> "MudrexOrderError"
      [] code \in {"POSITION_ERROR", "POSITION_CLOSED"} -> "MudrexPositionError"
      [] OTHER -> "MudrexAPIError"

\* The class chosen from the HTTP status when the code is not in the map.
status_class(status_code) ==
    IF status_code = 401 \/ status_code = 403 THEN "MudrexAuthenticationError"
    ELSE IF status_code = 404 THEN "MudrexNotFoundError"
    ELSE IF status_code = 429 THEN "MudrexRateLimitError"
    ELSE IF status_code = 409 THEN "MudrexConflictError"
    ELSE IF status_code >= 500 THEN "MudrexServerError"
    ELSE IF status_code = 400 THEN "MudrexValidationError"
    ELSE "MudrexAPIError"

\* Mutant: the HTTP status decides whenever it names a class.
exception_class_status_first(code, status_code) ==
    IF status_class(status_code) # "MudrexAPIError" THEN status_class(status_code)
    ELSE ERROR_CODE_MAP(code)

\* The class raise_for_error raises for a code and a status.
exception_class(code, status_code) ==
    IF ERROR_CODE_MAP(code) = "MudrexAPIError" THEN status_class(status_code)
    ELSE ERROR_CODE_MAP(code)

\* The error code raise_for_error extracts: the "code" of the response
\* ("UNKNOWN_ERROR" when absent), replaced by the code of the first entry of
\* the "errors" array when that entry is an object with a non-empty code.
response_code(response) ==
    LET code == IF response.code = "absent" THEN "UNKNOWN_ERROR" ELSE response.code
    IN IF response.errors.t = "dict" /\ response.errors.code \notin {"absent", ""}
       THEN response.errors.code
       ELSE code

\* Mutant: only the HTTP status makes a response an error.
is_error_status_only(response, status_code) == status_code >= 400

\* not (response.get("success", True) and status_code < 400)
is_error(response, status_code) ==
    ~(response.success \in {"absent", "true"} /\ status_code < 400)

\* The attributes the constructor call of raise_for_error leaves on the
\* exception beside the code: it passes message, code, status_code,
\* request_id and response, so a MudrexRateLimitError keeps the default
\* retry_after = None whatever the response carries.
exception_attributes(class, response) ==
    IF class = "MudrexRateLimitError" THEN [retry_after |-> NoneV]
    ELSE [attribute \in {} |-> NoneV]

raise_for_error(response, status_code) ==
    IF ~is_error(response, status_code) THEN [outcome |-> "ok"]
    ELSE [ outcome |-> exception_class(response_code(response), status_code),
           code |-> response_code(response) ]
         @@ exception_attributes(
              exception_class(response_code(response), status_code), response)

\* The error payloads and statuses the exchange may answer with.
KnownCodes ==
    { "UNAUTHORIZED", "FORBIDDEN", "INVALID_API_KEY", "API_KEY_EXPIRED",
      "RATE_LIMIT_EXCEEDED", "TOO_MANY_REQUESTS", "INVALID_REQUEST",
      "VALIDATION_ERROR", "BAD_REQUEST", "INVALID_PARAMETER", "NOT_FOUND",
      "ASSET_NOT_FOUND", "ORDER_NOT_FOUND", "POSITION_NOT_FOUND", "CONFLICT",
      "DUPLICATE", "SERVER_ERROR", "INTERNAL_ERROR", "SERVICE_UNAVAILABLE",
      "INSUFFICIENT_BALANCE", "INSUFFICIENT_MARGIN", "INSUFFICIENT_FUNDS",
      "ORDER_REJECTED", "ORDER_FAILED", "POSITION_ERROR", "POSITION_CLOSED" }

ResponseCodes == KnownCodes \cup {"absent", "UNKNOWN_ERROR", "E_CUSTOM"}

FirstErrors ==
    { [t |-> "none"], [t |-> "string"],
      [t |-> "dict", code |-> "absent"], [t |-> "dict", code |-> ""],
      [t |-> "dict", code |-> "ORDER_REJECTED"], [t |-> "dict", code |-> "E_CUSTOM"] }

Successes == {"absent", "true", "false", "null"}

Statuses == {200, 399, 400, 401, 403, 404, 409, 422, 429, 500, 503}

\* The retry hint a rate-limited answer may carry, in seconds.
RetryHints == {NoneV, Num(30)}

Responses ==
    [ success : Successes, code : ResponseCodes, errors : FirstErrors,
      retry_after : RetryHints ]

RaiseForError ==
    /\ Idle
    /\ \E response \in Responses, status_code \in Statuses :
        /\ last' = [ op |-> "raise_for_error", response |-> response,
                     status_code |-> status_code, reqs |-> <<>> ]
                   @@ raise_for_error(response, status_code)
        /\ UNCHANGED <<exPositions, shown, catalog, history, thread, cache, index,
                     lastDrain>>

-----------------------------------------------------------------------------
(* Payload parsing *)

\* What a payload may carry under a key: nothing (or null), "", "0", "0.1",
\* "0.5", the numbers 0 and 0.5, and a string that is not a number.
PayloadValues ==
    {NoneV, EmptyS, Num(0), Num(100), Num(500), Number(0), Number(500), BadS}

OrderPayloads ==
    [ quantity : PayloadValues, size : PayloadValues,
      filled_quantity : {NoneV, Num(0), Num(100)},
      filled_size : {NoneV, Num(100), Number(0)} ]

\* Order.from_dict on the quantity fields.
OrderFromDict(data) ==
    [ quantity |-> Str(normalize_quantity(data)),
      filled_quantity |->
          Str(Str(IF Truthy(data.filled_quantity) THEN data.filled_quantity
                  ELSE IF Truthy(data.filled_size) THEN data.filled_size
                  ELSE Num(0))) ]

ParseOrder ==
    /\ Idle
    /\ \E data \in OrderPayloads :
        /\ last' = [ op |-> "Order.from_dict", data |-> data, outcome |-> "ok",
                     reqs |-> <<>>, result |-> OrderFromDict(data) ]
        /\ UNCHANGED <<exPositions, shown, catalog, history, thread, cache, index,
                     lastDrain>>

\* A nested stop-loss / take-profit object {price, order_id, order_type}.
Nested(price) == [t |-> "dict", price |-> price]

\* What a position payload may carry under "stoploss" / "takeprofit":
\* nothing, an object with or without a price, or a bare string.
NestedValues == {NoneV, Nested(NoneV), Nested(Num(4100)), Num(4300)}
FlatValues == {NoneV, Num(4100), Num(4200)}

PositionRiskPayloads ==
    [ stoploss : NestedValues, stoploss_price : FlatValues,
      takeprofit : NestedValues, takeprofit_price : FlatValues ]

\* Mutant: the flat key is preferred when it carries a price.
risk_price_flat_first(nested, flat) ==
    IF flat # NoneV THEN flat
    ELSE IF nested.t = "dict" THEN nested.price ELSE NoneV

\* The price Position.from_dict extracts from the nested object or the flat
\* key.
risk_price(nested, flat) ==
    IF nested.t = "dict" THEN nested.price ELSE flat

\* Position.from_dict on the stop-loss and take-profit fields.
PositionRiskFromDict(data) ==
    [ stoploss_price |-> risk_price(data.stoploss, data.stoploss_price),
      takeprofit_price |-> risk_price(data.takeprofit, data.takeprofit_price) ]

ParsePosition ==
    /\ Idle
    /\ \E data \in PositionRiskPayloads :
        /\ last' = [ op |-> "Position.from_dict", data |-> data, outcome |-> "ok",
                     reqs |-> <<>>, result |-> PositionRiskFromDict(data) ]
        /\ UNCHANGED <<exPositions, shown, catalog, history, thread, cache, index,
                     lastDrain>>

-----------------------------------------------------------------------------
(* Total PnL *)

\* The open positions as list_open returns them, on the two fields
\* get_total_pnl reads: decimal strings, or a string float() refuses (the
\* "None" that str() makes of a null).
PnlValues == {Num(5000), Num(-2000), BadS}
MarginValues == {Num(10000), Num(4000), Num(0), BadS}
PnlPosition == [unrealized_pnl : PnlValues, margin : MarginValues]
PnlPositions ==
    {<<>>} \cup {<<p>> : p \in PnlPosition}
           \cup {<<p, q>> : p \in PnlPosition, q \in PnlPosition}

\* One pass of the loop body: the two additions inside the try block, the
\* second of which is not reached when the first raises.
add_position(totals, pos) ==
    IF ~CanFloat(pos.unrealized_pnl) THEN totals
    ELSE IF ~CanFloat(pos.margin)
    THEN [totals EXCEPT !.pnl = @ + pos.unrealized_pnl.u]
    ELSE [pnl |-> totals.pnl + pos.unrealized_pnl.u,
          margin |-> totals.margin + pos.margin.u]

RECURSIVE pnl_loop(_, _, _)
pnl_loop(positions, k, totals) ==
    IF k > Len(positions) THEN totals
    ELSE pnl_loop(positions, k + 1, add_position(totals, positions[k]))

\* total_pnl / total_margin * 100 as a fraction, 0 without margin.
pnl_percentage(total_pnl, total_margin) ==
    IF total_margin > 0 THEN [num |-> 100 * total_pnl, den |-> total_margin]
    ELSE [num |-> 0, den |-> 1]

\* PositionsAPI.get_total_pnl, after list_open.
get_total_pnl(positions) ==
    LET totals == pnl_loop(positions, 1, [pnl |-> 0, margin |-> 0])
    IN [ total_unrealized_pnl |-> totals.pnl,
         total_margin |-> totals.margin,
         position_count |-> Len(positions),
         pnl_percentage |-> pnl_percentage(totals.pnl, totals.margin) ]

GetTotalPnl ==
    /\ Idle
    /\ \E positions \in PnlPositions, fail \in BOOLEAN :
        /\ last' = [ op |-> "positions.get_total_pnl", positions |-> positions,
                     reqs |-> <<Req("GET", "/futures/positions")>> ]
                   @@ IF fail THEN [outcome |-> "TransportError"]
                      ELSE [outcome |-> "ok", result |-> get_total_pnl(positions)]
        /\ UNCHANGED <<exPositions, shown, catalog, history, thread, cache, index,
                     lastDrain>>

-----------------------------------------------------------------------------
(* MCP tools *)

\* An exception: its class, and which of the substrings the handler looks
\* for ("insufficient", "not found") str(e) contains, if any.
Texts == {"plain", "insufficient", "not found"}
Raised(class, text) == [class |-> class, text |-> text]

MudrexErrors ==
    { "MudrexAPIError", "MudrexAuthenticationError", "MudrexRateLimitError",
      "MudrexValidationError", "MudrexNotFoundError",
      "MudrexInsufficientBalanceError", "MudrexServerError" }

\* What the transport raises for a failed request.
TransportErrors == {Raised(c, t) : c \in MudrexErrors, t \in Texts}

\* The exception a failed SDK call stands for; raised is the transport's
\* error when the failure is the transport's.  The ValueError of an unknown
\* symbol (the one that names a search) says "not found".
SdkException(r, raised) ==
    IF r.outcome = "TransportError" THEN raised
    ELSE IF r.outcome = "ValueError" /\ "search" \in DOMAIN r
    THEN Raised("ValueError", "not found")
    ELSE Raised(r.outcome, "plain")

\* The ErrorResponse mapping.  error is the message: str(e) itself, str(e)
\* with a prefix or a suffix, or a fixed sentence.
ErrorResponse(error, error_type, details) ==
    [kind |-> "ErrorResponse", error |-> error, error_type |-> error_type,
     details |-> details]

\* The except branch of _handle_tool_error.
handle_tool_error(e) ==
    LET as_raised == [form |-> "str(e)", text |-> e.text]
        error_message ==
            IF e.class = "MudrexAuthenticationError"
            THEN [form |-> "Invalid API credentials.", text |-> "plain"]
            ELSE IF e.class = "MudrexRateLimitError"
            THEN [form |-> "Rate limit exceeded. + str(e)", text |-> e.text]
            ELSE IF e.class = "MudrexValidationError" THEN as_raised
            ELSE IF e.text = "insufficient"
            THEN [form |-> "Insufficient funds.", text |-> "insufficient"]
            ELSE IF e.text = "not found"
            THEN [form |-> "str(e) + . Use search_markets", text |-> e.text]
            ELSE as_raised
        error_type ==
            IF e.class = "MudrexAuthenticationError" THEN "AuthenticationError"
            ELSE IF e.class = "MudrexRateLimitError" THEN "RateLimitError"
            ELSE IF e.class = "MudrexValidationError" THEN "ValidationError"
            ELSE IF e.text = "insufficient" THEN "InsufficientFundsError"
            ELSE IF e.text = "not found" THEN "NotFoundError"
            ELSE e.class
    IN ErrorResponse(error_message, error_type,
                     IF error_message # as_raised THEN Some(e.text) ELSE NoneV)

\* Mutant: only the SDK's own errors are caught.
handled_mudrex_only(e) == e.class \in MudrexErrors

\* except Exception: every exception class of the model derives from
\* Exception.
handled(e) ==
    e.class \in MudrexErrors
               \cup {"ValueError", "TypeError", "AttributeError",
                     "ZeroDivisionError", "Exception"}

\* The wrapper of _handle_tool_error around a tool body that returned a
\* value or raised e.
tool_call(body) ==
    IF ~body.raised THEN [outcome |-> "returned", result |-> body.value]
    ELSE IF handled(body.e)
    THEN [outcome |-> "returned", result |-> handle_tool_error(body.e)]
    ELSE [outcome |-> "raised", exception |-> body.e]

\* The attributes of an Order: the dataclass fields and the properties.
OrderAttributes ==
    { "order_id", "asset_id", "symbol", "order_type", "trigger_type", "status",
      "quantity", "filled_quantity", "price", "leverage", "created_at",
      "updated_at", "stoploss_price", "takeprofit_price", "is_filled",
      "is_open", "fill_percentage" }

\* The attributes of a WalletBalance.
WalletBalanceAttributes ==
    { "total", "withdrawable", "invested", "rewards", "coin_investable",
      "coinset_investable", "vault_investable", "currency", "available" }

\* The attributes the order tools and get_spot_balance read to build their
\* response.
OrderResponseReads ==
    {"order_id", "symbol", "order_type", "quantity", "leverage", "status", "fill_price"}
BalanceResponseReads == {"total", "available", "rewards", "withdrawable"}

\* The return statement of a tool: the typed response, or the
\* AttributeError of reading an attribute the object does not have.
build_response(kind, reads, attributes, value) ==
    IF reads \subseteq attributes
    THEN [raised |-> FALSE, value |-> [kind |-> kind, value |-> value]]
    ELSE [raised |-> TRUE, e |-> Raised("AttributeError", "plain")]

\* The body of an order tool around the SDK call r.
order_tool_body(r, raised) ==
    IF r.outcome # "ok" THEN [raised |-> TRUE, e |-> SdkException(r, raised)]
    ELSE build_response("OrderResponse", OrderResponseReads, OrderAttributes, r.result)

\* The create_market_order tool: symbol, side, quantity, leverage and the
\* two risk prices are passed on; asset_id is left to its default.
McpCreateMarketOrder ==
    /\ Idle
    /\ \E a \in MarketArgs, lookup \in Lookups, post \in Posts, raised \in TransportErrors :
        /\ a.asset_id = NoneS
        /\ a.symbol # NoneS
        /\ LET r == create_market_order(a, <<>>, [lookup |-> lookup, post |-> post])
           IN last' = [ op |-> "mcp.create_market_order", args |-> a, sdk |-> r.outcome,
                        reqs |-> r.reqs ]
                      @@ tool_call(order_tool_body(r, raised))
        /\ UNCHANGED <<exPositions, shown, catalog, history, thread, cache, index,
                     lastDrain>>

McpCreateLimitOrder ==
    /\ Idle
    /\ \E a \in LimitArgs, lookup \in Lookups, post \in Posts, raised \in TransportErrors :
        /\ a.asset_id = NoneS
        /\ a.symbol # NoneS
        /\ a.price # NoneV
        /\ LET r == create_limit_order(a, <<>>, [lookup |-> lookup, post |-> post])
           IN last' = [ op |-> "mcp.create_limit_order", args |-> a, sdk |-> r.outcome,
                        reqs |-> r.reqs ]
                      @@ tool_call(order_tool_body(r, raised))
        /\ UNCHANGED <<exPositions, shown, catalog, history, thread, cache, index,
                     lastDrain>>

\* The get_spot_balance tool: the wallet read answers or raises.
McpGetSpotBalance ==
    /\ Idle
    /\ \E answered \in BOOLEAN, raised \in TransportErrors :
        /\ last' = [ op |-> "mcp.get_spot_balance",
                     sdk |-> IF answered THEN "ok" ELSE "TransportError",
                     reqs |-> <<Req("POST", "/wallet/funds")>> ]
                   @@ tool_call(
                        IF answered
                        THEN build_response("BalanceResponse", BalanceResponseReads,
                                            WalletBalanceAttributes, "balance")
                        ELSE [raised |-> TRUE, e |-> raised])
        /\ UNCHANGED <<exPositions, shown, catalog, history, thread, cache, index,
                     lastDrain>>

-----------------------------------------------------------------------------
(* Specifications *)

\* The positions endpoints, beside an asset cache that is being filled.
Init ==
    /\ exPositions \in [PosIds -> 0..MaxQty]
    /\ shown = NoneV
    /\ catalog = [base |-> 0, n |-> 37]
    /\ history = 0
    /\ cache = [i \in Instances |-> Unset]
    /\ index = [i \in Instances |-> Unset]
    /\ lastDrain = [i \in Instances \cup {Process} |-> NoneV]
    /\ last = NoCall
    /\ thread = [t \in Threads |-> NoThreadCall]

Next ==
    \/ ListOpen
    \/ GetPosition
    \/ ClosePosition
    \/ ExchangeMoves
    \/ ListAll("a1", {NoSort}, {NoFault})
    \/ Returned

Spec == Init /\ [][Next]_vars

\* The asset catalog read through two AssetsAPI instances of one process.
InitAssets ==
    /\ exPositions = [p \in PosIds |-> 0]
    /\ shown = NoneV
    /\ catalog \in ListedCatalogs
    /\ history = 0
    /\ cache = [i \in Instances |-> Unset]
    /\ index = [i \in Instances |-> Unset]
    /\ lastDrain = [i \in Instances \cup {Process} |-> NoneV]
    /\ last = NoCall
    /\ thread = [t \in Threads |-> NoThreadCall]

NextAssets ==
    \/ ListAll("a1", Sorts, Faults)
    \/ ListAll("a2", {NoSort}, {NoFault})
    \/ \E i \in Instances : ClearCache(i)
    \/ CatalogChanges
    \/ Returned

SpecAssets == InitAssets /\ [][NextAssets]_vars

\* Two threads refreshing one asset cache while the catalog changes.
NextThreads ==
    \/ \E t \in Threads : ThreadDrain(t)
    \/ \E t \in Threads : ThreadStoreCache(t)
    \/ \E t \in Threads : ThreadStoreIndex(t)
    \/ \E t \in Threads : ThreadReturn(t)
    \/ CatalogChanges

SpecThreads == InitAssets /\ [][NextThreads]_vars

\* The four drains, each against a remote collection that stays as it is.
InitHistory ==
    /\ exPositions = [p \in PosIds |-> 0]
    /\ shown = NoneV
    /\ catalog \in Catalogs
    /\ history \in HistorySizes
    /\ catalog.n = history
    /\ cache = [i \in Instances |-> Unset]
    /\ index = [i \in Instances |-> Unset]
    /\ lastDrain = [i \in Instances \cup {Process} |-> NoneV]
    /\ last = NoCall
    /\ thread = [t \in Threads |-> NoThreadCall]

NextHistory ==
    \/ OrdersGetHistory
    \/ PositionsGetHistory
    \/ FeesGetHistory
    \/ ListAll("a1", {NoSort}, Faults)
    \/ ClearCache("a1")
    \/ Returned

SpecHistory == InitHistory /\ [][NextHistory]_vars

\* Order construction against every answer of the exchange.
NextOrders ==
    \/ CreateMarketOrder
    \/ CreateLimitOrder
    \/ CreateMarketOrderWithAmount
    \/ Create
    \/ Returned

InitOrders == InitAssets /\ catalog.n = 37

SpecOrders == InitOrders /\ [][NextOrders]_vars

\* The batch operations against open orders and positions that come and go.
NextBatch ==
    \/ CancelAll
    \/ CloseAll
    \/ ExchangeMoves
    \/ Returned

SpecBatch == Init /\ [][NextBatch]_vars

\* The error mapping applied to every answer of the exchange.
NextErrors ==
    \/ RaiseForError
    \/ Returned

SpecErrors == InitOrders /\ [][NextErrors]_vars

\* The rounding rule applied to every raw quantity within the bounds.
NextRounding ==
    \/ RoundToStep
    \/ CalculateOrderFromUsd
    \/ Returned

SpecRounding == InitOrders /\ [][NextRounding]_vars

\* The model classes built from every payload within the bounds.
NextParsing ==
    \/ ParseOrder
    \/ ParsePosition
    \/ Returned

SpecParsing == InitOrders /\ [][NextParsing]_vars

\* The PnL summary of every list of open positions within the bounds.
NextPnl ==
    \/ GetTotalPnl
    \/ Returned

SpecPnl == InitOrders /\ [][NextPnl]_vars

\* The MCP tools called with every argument and exchange answer within the
\* bounds.
NextMcp ==
    \/ McpGetSpotBalance
    \/ McpCreateMarketOrder
    \/ McpCreateLimitOrder
    \/ Returned

SpecMcp == InitOrders /\ [][NextMcp]_vars

-----------------------------------------------------------------------------
(* Properties: position reads *)

\* C1: every positions.list_open and positions.get issues one fresh GET and
\* returns the exchange's positions as they are at the time of the call,
\* whatever was returned or cached before.
C1_PositionReadsAreFresh ==
    /\ last.op = "positions.list_open" =>
          /\ last.reqs = <<Req("GET", "/futures/positions")>>
          /\ last.outcome = "ok" => last.result = TruePositions(last.seen)
    /\ last.op = "positions.get" =>
          /\ last.reqs = <<ReqId("GET", "/futures/positions/{id}", last.id)>>
          /\ last.outcome = "ok" =>
                last.result = [position_id |-> last.id, quantity |-> Num(last.seen[last.id])]

\* A list_open whose answer differs from the one the caller was shown before,
\* made while the asset cache is filled.
C1_FreshAfterEarlierRead ==
    /\ last.op = "positions.list_open"
    /\ last.outcome = "ok"
    /\ last.prior # NoneV
    /\ last.prior.v # last.result
    /\ Len(last.result) > 0
    /\ cache["a1"] # Unset

-----------------------------------------------------------------------------
(* Properties: order construction *)

QuantityOps == {"orders.create_market_order", "orders.create_limit_order"}
AmountOp == "orders.create_market_order_with_amount"
OrderOps == QuantityOps \cup {AmountOp, "orders.create"}

InvalidSide(a) == a.side \in {NoneS, ""} \/ Upper(a.side) \notin {"LONG", "SHORT"}
MissingQuantity(a) == a.quantity \in {NoneV, EmptyS}
NoIdentifier(a) == a.symbol \in {NoneS, ""} /\ a.asset_id \in {NoneS, ""}

\* The asset the lookup returned has a positive quantity step and the
\* quantity, rounded to it, is below the asset's minimum.
RoundedBelowMinimum(call) ==
    /\ call.lookup.kind = "ok"
    /\ call.args.quantity.t = "num"
    /\ call.lookup.data.quantity_step.t = "num"
    /\ call.lookup.data.quantity_step.u > 0
    /\ call.lookup.data.min_quantity.t = "num"
    /\ LET step == call.lookup.data.quantity_step.u
       IN RoundHalfEven(call.args.quantity.u, step) * step
             < call.lookup.data.min_quantity.u

\* C2: in create_market_order / create_limit_order, when the asset lookup
\* succeeds and the quantity rounded to the quantity step is below the
\* asset's minimum, the call fails with a validation error and no order POST
\* is issued.
C2_BelowMinimumRejected ==
    (/\ last.op \in QuantityOps
     /\ ~NoIdentifier(last.args)
     /\ ~InvalidSide(last.args)
     /\ RoundedBelowMinimum(last))
    => (last.outcome = "ValueError" /\ PostsOf(last.reqs) = 0)

\* The USD amount buys at most half a quantity step at the asset's price:
\* the derived quantity rounds to zero.
DerivedNotPositive(call) ==
    /\ call.lookup.kind = "ok"
    /\ call.args.quantity.t = "num"
    /\ call.lookup.data.price.t = "num"
    /\ call.lookup.data.price.u > 0
    /\ call.lookup.data.quantity_step.t = "num"
    /\ call.lookup.data.quantity_step.u > 0
    /\ 2 * 1000 * call.args.quantity.u
          <= call.lookup.data.price.u * call.lookup.data.quantity_step.u

ZeroPriceOrStep(data) ==
    \/ data.price = Num(0)
    \/ data.quantity_step \in {NoneV, Num(0)}

\* The one asset GET create_market_order_with_amount starts with.
FirstLookup(a) ==
    IF a.symbol \notin {NoneS, ""} THEN <<AssetReq(a.symbol, TRUE)>>
    ELSE <<AssetReq(a.asset_id, FALSE)>>

\* C3 as stated: in create_market_order, create_limit_order and
\* create_market_order_with_amount, an invalid or missing side, a missing
\* quantity/amount, a missing identifier or a non-positive USD-derived
\* quantity fails with a validation error and no HTTP request at all.
C3_InvalidInputNoRequest ==
    (/\ last.op \in QuantityOps \cup {AmountOp}
     /\ \/ InvalidSide(last.args)
        \/ MissingQuantity(last.args)
        \/ NoIdentifier(last.args)
        \/ (last.op = AmountOp /\ DerivedNotPositive(last)))
    => (last.outcome = "ValueError" /\ last.reqs = <<>>)

\* C3 amended: create_market_order and create_limit_order fail such input
\* with a validation error before any request; so does
\* create_market_order_with_amount when no identifier is given.  Its other
\* checks come after its asset GET: the call fails having issued that one GET
\* and no order POST, with a validation error whenever the lookup succeeded
\* and the asset's price and quantity step are not zero.
C3_InvalidInputFailsEarly ==
    /\ (/\ last.op \in QuantityOps
        /\ \/ InvalidSide(last.args)
           \/ MissingQuantity(last.args)
           \/ NoIdentifier(last.args))
       => (last.outcome = "ValueError" /\ last.reqs = <<>>)
    /\ (last.op = AmountOp /\ NoIdentifier(last.args))
       => (last.outcome = "ValueError" /\ last.reqs = <<>>)
    /\ (/\ last.op = AmountOp
        /\ ~NoIdentifier(last.args)
        /\ \/ InvalidSide(last.args)
           \/ MissingQuantity(last.args)
           \/ DerivedNotPositive(last))
       => /\ last.outcome \notin {"ok", "none"}
          /\ last.reqs = FirstLookup(last.args)
          /\ last.lookup.kind = "ok" =>
                \/ last.outcome = "ValueError"
                \/ /\ last.outcome = "ZeroDivisionError"
                   /\ ZeroPriceOrStep(last.lookup.data)

\* An amount too small for one step is refused after the asset GET.
C3_SmallAmountRefusedAfterLookup ==
    /\ last.op = AmountOp
    /\ ~InvalidSide(last.args)
    /\ DerivedNotPositive(last)
    /\ last.outcome = "ValueError"
    /\ Len(last.reqs) = 1

\* C4: in the four order-creating operations a supplied symbol takes
\* priority over asset_id: every request of the call (asset lookup and order
\* POST) is addressed by the symbol; with neither, the call fails with a
\* validation error before any request.
C4_SymbolTakesPriority ==
    last.op \in OrderOps =>
        /\ last.args.symbol \notin {NoneS, ""} =>
              /\ \A k \in 1..Len(last.reqs) :
                    last.reqs[k].id = last.args.symbol /\ last.reqs[k].use_symbol
              /\ last.outcome = "ok" => last.result.symbol = last.args.symbol
        /\ NoIdentifier(last.args) => (last.outcome = "ValueError" /\ last.reqs = <<>>)

\* An order placed by amount with both a symbol and an asset id given.
C4_BothGivenOrderPlaced ==
    /\ last.op = AmountOp
    /\ last.args.symbol = "BTCUSDT"
    /\ last.args.asset_id = "a-01"
    /\ last.outcome = "ok"
    /\ Len(last.reqs) = 3
    /\ PostsOf(last.reqs) = 1

\* A failure inside the try block of _create_order after the asset was
\* fetched: the quantity step or the price step raised.
RoundingRaised(call) ==
    /\ call.lookup.kind = "ok"
    /\ LET asset == OrderAssetFromDict(call.lookup.data)
       IN \/ create_order_quantity(asset, call.args.quantity).raised
          \/ create_order_price(asset, call.args.price).raised

\* The body of the order POST of a call.
WireBody(call) == call.reqs[Len(call.reqs)].body

\* The order_price the caller's price puts on the wire when nothing modifies
\* it (a MARKET order without a price carries the placeholder).
CallerPrice(call) ==
    IF call.args.price # NoneV THEN Some(call.args.price.u)
    ELSE IF call.op = "orders.create_market_order" THEN Some(Placeholder.u)
    ELSE NoneV

\* C11: in create_market_order / create_limit_order, when the asset lookup
\* fails for a reason other than an unknown identifier, or the rounding
\* raises after a successful fetch, the order is still POSTed and its wire
\* quantity and price are the caller's values, neither of them rounded.
C11_FailedLookupKeepsCallerValues ==
    (/\ last.op \in QuantityOps
     /\ ~NoIdentifier(last.args)
     /\ ~InvalidSide(last.args)
     /\ last.args.quantity.t = "num"
     /\ last.args.price.t \in {"none", "num"}
     /\ (last.lookup.kind = "error" \/ RoundingRaised(last)))
    => /\ PostsOf(last.reqs) = 1
       /\ WireBody(last).quantity = last.args.quantity.u
       /\ WireBody(last).order_price = CallerPrice(last)

\* The identifier _resolve_identifier hands to _create_order.
Resolved(a) == IF a.symbol \notin {NoneS, ""} THEN a.symbol ELSE a.asset_id

\* The reason and the search hint an error carries, "none" without one.
Why(call) == IF "why" \in DOMAIN call THEN call.why ELSE "none"
Search(call) == IF "search" \in DOMAIN call THEN call.search ELSE "none"

\* C12: in create_market_order / create_limit_order, when the asset lookup
\* fails with a text that says "not found", the call fails with the not-found
\* error that suggests assets.search on the first three characters of the
\* identifier, and no order POST is issued.
C12_UnknownIdentifierRejected ==
    (/\ last.op \in QuantityOps
     /\ ~NoIdentifier(last.args)
     /\ ~InvalidSide(last.args)
     /\ ~MissingQuantity(last.args)
     /\ last.lookup.kind = "not_found")
    => /\ last.outcome = "ValueError"
       /\ Why(last) = "not_found"
       /\ Search(last) = Prefix3(Resolved(last.args))
       /\ last.reqs = <<AssetReq(Resolved(last.args), last.args.symbol \notin {NoneS, ""})>>

\* A limit order addressed by a legacy asset id the exchange does not know.
C12_UnknownAssetIdRefused ==
    /\ last.op = "orders.create_limit_order"
    /\ last.args.symbol = NoneS
    /\ last.args.asset_id = "a-01"
    /\ last.lookup.kind = "not_found"
    /\ last.outcome = "ValueError"
    /\ Search(last) = "a-0"
    /\ PostsOf(last.reqs) = 0
    /\ Len(last.reqs) = 1

\* The minimum viable amount an error names (in millionths), -1 without one.
Minimum(call) == IF "minimum" \in DOMAIN call THEN call.minimum ELSE -1

-----------------------------------------------------------------------------
(* Properties: the asset cache *)

Elements(seq) == {seq[k] : k \in 1..Len(seq)}

\* result holds the assets of held, in held's order when no sort is asked
\* for, ordered by symbol otherwise.
IsSortedCopy(result, held, sort) ==
    IF sort.sort_by = "none" THEN result = held
    ELSE /\ Len(result) = Len(held)
         /\ Elements(result) = Elements(held)
         /\ \A k \in 1..(Len(result) - 1) :
               IF sort.sort_order = "desc"
               THEN result[k].symbol >= result[k + 1].symbol
               ELSE result[k].symbol <= result[k + 1].symbol

\* C5 as stated: list_all issues requests if and only if refresh is true or
\* the cache is empty; otherwise it returns the cached sequence.
C5_CachedSequenceReturned ==
    last.op = "assets.list_all" =>
        /\ (last.reqs # <<>>) <=> (last.refresh \/ last.held = NoneV)
        /\ (~last.refresh /\ last.held # NoneV) =>
              (last.outcome = "ok" /\ last.result = last.held.v)

\* C5 amended: list_all issues requests if and only if refresh is true or
\* the instance's cache is empty; otherwise it returns, with no request, the
\* cached assets: the cached sequence itself when no sort_by is given, the
\* cached assets sorted by sort_by when one is.
C5_RequestsIffRefreshOrEmpty ==
    last.op = "assets.list_all" =>
        /\ (last.reqs # <<>>) <=> (last.refresh \/ last.held = NoneV)
        /\ (~last.refresh /\ last.held # NoneV) =>
              /\ last.outcome = "ok"
              /\ IsSortedCopy(last.result, last.held.v, last.sort)

\* A call served from the cache in another order than the cache holds.
C5_ServedSortedFromCache ==
    /\ last.op = "assets.list_all"
    /\ ~last.refresh
    /\ last.held # NoneV
    /\ last.sort.sort_by = "symbol"
    /\ last.reqs = <<>>
    /\ last.result # last.held.v

\* C6 as stated: the cache is process-wide: once some instance has completed
\* a drain and no clear_cache has followed, list_all(refresh=False) on any
\* instance returns that sequence without a request.
C6_CacheIsProcessWide ==
    (last.op = "assets.list_all" /\ ~last.refresh /\ last.shared # NoneV)
    => /\ last.reqs = <<>>
       /\ last.outcome = "ok"
       /\ IsSortedCopy(last.result, last.shared.v, last.sort)

\* C6 amended: the cache belongs to the instance: a list_all through one
\* instance leaves every other instance's cache and index as they were, and
\* list_all(refresh=False) is served without a request exactly when the
\* instance called holds a cache of its own, whose assets it returns.
C6_CacheIsPerInstance ==
    [][ (last = NoCall /\ last'.op = "assets.list_all") =>
          /\ \A j \in Instances \ {last'.inst} :
                cache'[j] = cache[j] /\ index'[j] = index[j]
          /\ ~last'.refresh =>
                /\ (last'.reqs = <<>>) <=> (cache[last'.inst] \notin {Unset, NoneV})
                /\ last'.reqs = <<>> =>
                      IsSortedCopy(last'.result, cache[last'.inst].v, last'.sort)
      ]_vars

\* An instance drains the catalog although another instance holds a filled
\* cache that nothing has cleared.
C6_SecondInstanceDrains ==
    /\ last.op = "assets.list_all"
    /\ last.inst = "a2"
    /\ ~last.refresh
    /\ last.held = NoneV
    /\ last.shared # NoneV
    /\ last.reqs # <<>>
    /\ cache["a1"] \notin {Unset, NoneV}

\* C7: after any sequence of list_all and clear_cache calls, for every
\* instance either the cache and the symbol index are both empty, or the
\* cache holds exactly the assets of the most recent completed drain and the
\* index maps exactly the symbols of those assets to assets of the cache
\* bearing them.
C7_CacheAndIndexAgree ==
    \A i \in Instances :
        \/ /\ cache[i] \in {Unset, NoneV}
           /\ index[i] \in {Unset, NoneV}
           /\ lastDrain[i] = NoneV
        \/ /\ lastDrain[i] # NoneV
           /\ cache[i] = lastDrain[i]
           /\ index[i] \notin {Unset, NoneV}
           /\ DOMAIN index[i].v = {a.symbol : a \in Elements(cache[i].v)}
           /\ \A s \in DOMAIN index[i].v :
                 index[i].v[s].symbol = s /\ index[i].v[s] \in Elements(cache[i].v)

\* A forced refresh has replaced a filled cache by a different catalog.
C7_RefreshReplacedCache ==
    /\ last.op = "assets.list_all"
    /\ last.refresh
    /\ last.outcome = "ok"
    /\ last.held # NoneV
    /\ Len(last.held.v) > 0
    /\ Len(last.result) > 0
    /\ last.held.v # last.result
    /\ cache[last.inst] = Some(last.result)

-----------------------------------------------------------------------------
(* Properties: drains *)

HistoryOps == {"orders.get_history", "positions.get_history", "fees.get_history"}
DrainOps == HistoryOps \cup {"assets.list_all"}

\* The records the exchange holds for the call, in the order it serves them.
RemoteOf(call) ==
    IF call.op = "assets.list_all"
    THEN CatalogSeq(call.cat, call.sort.sort_by, call.sort.sort_order)
    ELSE [k \in 1..call.n |-> RecordFromDict(HistoryPayload(k))]

RemoteLen(call) == IF call.op = "assets.list_all" THEN call.cat.n ELSE call.n

\* The number of items page p carries for the call.
ServedLen(call, p) ==
    IF call.fault.page = p THEN 0
    ELSE LET left == RemoteLen(call) - (p - 1) * PerPage
         IN IF left < 0 THEN 0 ELSE IF left > PerPage THEN PerPage ELSE left

\* The first page holding fewer than PerPage items.
StopPage(call) ==
    CHOOSE p \in 1..(RemoteLen(call) \div PerPage + 1) :
        /\ ServedLen(call, p) < PerPage
        /\ \A q \in 1..(p - 1) : ServedLen(call, q) = PerPage

\* The record passes the call's symbol filter (fees only).
Passes(call, r) ==
    (call.op = "fees.get_history" /\ call.symbol \notin {NoneS, ""})
    => (r.symbol = call.symbol \/ r.asset_id = call.symbol)

\* The records of pages 1..p that the call keeps.
KeptThrough(call, p) ==
    LET upto == IF p * PerPage < RemoteLen(call) THEN p * PerPage ELSE RemoteLen(call)
    IN SelectSeq(SubSeq(RemoteOf(call), 1, upto), LAMBDA r : Passes(call, r))

\* What an uncapped drain collects: pages 1..StopPage.
Drained(call) ==
    LET p == StopPage(call)
    IN SelectSeq(SubSeq(RemoteOf(call), 1, (p - 1) * PerPage + ServedLen(call, p)),
                 LAMBDA r : Passes(call, r))

RequestedPage(r) == IF r.path = "/futures" THEN r.offset \div PerPage + 1 ELSE r.page

Uncapped(call) ==
    IF call.op = "assets.list_all" THEN call.reqs # <<>> ELSE call.limit = NoneV

\* C8: with no cap, a drain that meets no transport failure returns the
\* items of pages 1, 2, ... up to and including the first page with fewer
\* than 100 items (an empty or missing items sequence being such a page),
\* concatenated in page order, and requests exactly those pages; remote
\* pages of 100, 100 and 37 items give 237 items from three requests.
C8_UncappedDrainConcatenatesPages ==
    (last.op \in DrainOps /\ Uncapped(last) /\ last.fault.kind # "raise") =>
        /\ last.outcome = "ok"
        /\ last.result = Drained(last)
        /\ Len(last.reqs) = StopPage(last)
        /\ \A k \in 1..Len(last.reqs) : RequestedPage(last.reqs[k]) = k
        /\ (/\ RemoteLen(last) = 2 * PerPage + 37
            /\ last.fault = NoFault
            /\ last.op = "fees.get_history" => last.symbol = NoneS)
           => (Len(last.result) = 237 /\ Len(last.reqs) = 3)

\* An uncapped drain of pages of 100, 100 and 37 records.
C8_ThreePagesDrained ==
    /\ last.op = "orders.get_history"
    /\ last.limit = NoneV
    /\ last.fault = NoFault
    /\ last.n = 237
    /\ Len(last.result) = 237
    /\ Len(last.reqs) = 3

\* C9: with a limit supplied (not None), a get_history that meets no fault
\* returns at most limit records, exactly limit when the remote holds that
\* many (for fees: that many passing the symbol filter), and requests no
\* page after the one on which the count reached the limit.
C9_LimitCapsResult ==
    (last.op \in HistoryOps /\ last.limit # NoneV /\ last.fault = NoFault) =>
        /\ last.outcome = "ok"
        /\ Len(last.result) <= last.limit.v
        /\ Len(KeptThrough(last, MaxPage)) >= last.limit.v
              => Len(last.result) = last.limit.v
        /\ \A k \in 1..(Len(last.reqs) - 1) :
              Len(KeptThrough(last, k)) < last.limit.v

\* C10: when the transport raises on a page a drain requested, the drain
\* ends with that error, returns no list, has requested no page after it,
\* and (list_all) leaves the cache as it was.
C10_TransportFailurePropagates ==
    (/\ last.op \in DrainOps
     /\ last.fault.kind = "raise"
     /\ \E k \in 1..Len(last.reqs) : RequestedPage(last.reqs[k]) = last.fault.page)
    => /\ last.outcome = "TransportError"
       /\ "result" \notin DOMAIN last
       /\ RequestedPage(last.reqs[Len(last.reqs)]) = last.fault.page
       /\ Len(last.reqs) = last.fault.page
       /\ last.op = "assets.list_all" =>
             IF last.held = NoneV THEN cache[last.inst] \in {Unset, NoneV}
             ELSE cache[last.inst] = last.held

\* A drain that failed on its second page, after a full first page.
C10_FailedOnSecondPage ==
    /\ last.op = "fees.get_history"
    /\ last.fault = [kind |-> "raise", page |-> 2]
    /\ last.outcome = "TransportError"
    /\ Len(last.reqs) = 2

-----------------------------------------------------------------------------
(* Properties: batch operations *)

BatchOps == {"orders.cancel_all", "positions.close_all"}

\* The ids of the listed items that pass the filters of the call.
Matching(call) ==
    { call.items[k].id : k \in
        { j \in 1..Len(call.items) :
            LET it == call.items[j]
                sym == IF it.symbol # NoneS THEN it.symbol ELSE it.asset_id
            IN /\ call.symbol \in {NoneS, ""}
                    \/ sym = call.symbol \/ it.asset_id = call.symbol
               /\ call.profitable_only =>
                     (it.unrealized_pnl.t = "num" /\ it.unrealized_pnl.u > 0) } }

\* The requests of a batch call after its listing GET.
ItemRequests(call) == SubSeq(call.reqs, 2, Len(call.reqs))

\* C14: once the open items are listed, cancel_all and close_all send exactly
\* one cancel/close for every item that passes the filters, whatever the
\* others answer, never raise, and return the number of items whose request
\* reported success.
C14_BatchContinuesAndCounts ==
    (last.op \in BatchOps /\ last.listed) =>
        /\ last.outcome = "ok"
        /\ Len(ItemRequests(last)) = Cardinality(Matching(last))
        /\ {r.id : r \in Elements(ItemRequests(last))} = Matching(last)
        /\ \A r \in Elements(ItemRequests(last)) :
              IF last.op = "orders.cancel_all"
              THEN r.method = "DELETE" /\ r.path = "/futures/orders/{id}"
              ELSE r.method = "POST" /\ r.path = "/futures/positions/{id}/close"
        /\ last.result = Cardinality({i \in Matching(last) : last.answers[i] = "ok"})

\* A cancel_all filtered by asset id whose first cancel raises still sends
\* the second, which succeeds.
C14_CancelsPastFailures ==
    /\ last.op = "orders.cancel_all"
    /\ Len(last.items) = 3
    /\ last.symbol = "a-01"
    /\ last.answers["o1"] = "raise"
    /\ last.answers["o3"] = "ok"
    /\ last.outcome = "ok"
    /\ last.result = 1
    /\ Len(last.reqs) = 3

-----------------------------------------------------------------------------
(* Properties: error mapping *)

ErrorKinds ==
    { "MudrexAuthenticationError", "MudrexRateLimitError", "MudrexValidationError",
      "MudrexNotFoundError", "MudrexConflictError", "MudrexServerError",
      "MudrexInsufficientBalanceError", "MudrexOrderError", "MudrexPositionError",
      "MudrexAPIError" }

\* The error code of a response as the exchange sends it.
RemoteCode(call) ==
    IF call.response.errors.t = "dict" /\ call.response.errors.code \notin {"absent", ""}
    THEN call.response.errors.code
    ELSE call.response.code

\* C15: when raise_for_error raises, a code of the closed code map decides
\* the error kind whatever the HTTP status is; for any other code the status
\* decides: 401/403 Authentication, 404 NotFound, 429 RateLimit, 409
\* Conflict, >= 500 ServerError, 400 Validation, otherwise the generic error.
C15_CodeDecidesBeforeStatus ==
    (last.op = "raise_for_error" /\ last.outcome # "ok") =>
        LET code == RemoteCode(last)
            st == last.status_code
        IN /\ code \in KnownCodes =>
                 /\ last.outcome = ERROR_CODE_MAP(code)
                 /\ last.outcome # "MudrexAPIError"
           /\ code \in {"INSUFFICIENT_BALANCE", "INSUFFICIENT_MARGIN", "INSUFFICIENT_FUNDS"}
                 => last.outcome = "MudrexInsufficientBalanceError"
           /\ code \notin KnownCodes =>
                 /\ st \in {401, 403} => last.outcome = "MudrexAuthenticationError"
                 /\ st = 404 => last.outcome = "MudrexNotFoundError"
                 /\ st = 429 => last.outcome = "MudrexRateLimitError"
                 /\ st = 409 => last.outcome = "MudrexConflictError"
                 /\ st >= 500 => last.outcome = "MudrexServerError"
                 /\ st = 400 => last.outcome = "MudrexValidationError"
                 /\ (st \notin {400, 401, 403, 404, 409, 429} /\ st < 500)
                       => last.outcome = "MudrexAPIError"

\* INSUFFICIENT_BALANCE with status 400 raised as InsufficientBalance.
C15_BalanceCodeWithStatus400 ==
    /\ last.op = "raise_for_error"
    /\ last.response.code = "INSUFFICIENT_BALANCE"
    /\ last.response.errors.t = "none"
    /\ last.status_code = 400
    /\ last.outcome = "MudrexInsufficientBalanceError"

\* C16: raise_for_error raises one error kind whenever the response carries
\* success false or the status is 400 or above, and returns without raising
\* only when success is absent or true and the status is below 400.
C16_ErrorPayloadAlwaysRaises ==
    last.op = "raise_for_error" =>
        /\ (last.response.success = "false" \/ last.status_code >= 400) =>
              (last.outcome # "ok" /\ last.outcome \in ErrorKinds)
        /\ last.outcome = "ok" =>
              (last.response.success \in {"absent", "true"} /\ last.status_code < 400)

\* A response with HTTP status 200 and success false raised as an error.
C16_FailureWithStatus200 ==
    /\ last.op = "raise_for_error"
    /\ last.response.success = "false"
    /\ last.status_code = 200
    /\ last.outcome = "MudrexAPIError"

-----------------------------------------------------------------------------
(* Properties: the order body *)

ConstructionOps == QuantityOps \cup {AmountOp}

\* The bodies of the order POSTs of a call.
Bodies(call) == {r.body : r \in {q \in Elements(call.reqs) : q.method = "POST"}}

\* C17: in an order built by create_market_order, create_limit_order or
\* create_market_order_with_amount the wire order_price is the placeholder
\* 999999999 exactly when the order is a MARKET order and the caller gave no
\* price; a LIMIT order never carries it.
C17_PlaceholderOnlyForMarket ==
    last.op \in ConstructionOps =>
        \A body \in Bodies(last) :
            /\ body.order_price = Some(999999999)
                  <=> (body.trigger_type = "MARKET" /\ last.args.price = NoneV)
            /\ body.trigger_type = "LIMIT" => body.order_price # Some(999999999)

\* A market order POSTed with the placeholder as its order_price.
C17_MarketOrderCarriesPlaceholder ==
    /\ last.op = "orders.create_market_order"
    /\ last.outcome = "ok"
    /\ WireBody(last).trigger_type = "MARKET"
    /\ WireBody(last).order_price = Some(999999999)

\* The two keys of each pair are on the wire together or not at all.
PairsTogether(body) ==
    /\ body.is_stoploss = NoneV <=> body.stoploss_price = NoneV
    /\ body.is_takeprofit = NoneV <=> body.takeprofit_price = NoneV

\* C18 as stated: in the body of an order built by the SDK, is_stoploss and
\* stoploss_price appear together exactly when the caller's stop-loss price
\* is not None, and likewise for take-profit.
C18_RiskKeysIffNonNull ==
    last.op \in ConstructionOps =>
        \A body \in Bodies(last) :
            /\ PairsTogether(body)
            /\ body.is_stoploss # NoneV <=> last.args.stoploss_price # NoneV
            /\ body.is_takeprofit # NoneV <=> last.args.takeprofit_price # NoneV

\* C18 amended: the pair appears exactly when the caller's price is truthy
\* (neither None nor the empty string), and then carries that price; neither key of a
\* pair appears without the other in any order body the SDK sends.
C18_RiskKeysIffPriceGiven ==
    /\ last.op \in OrderOps => \A body \in Bodies(last) : PairsTogether(body)
    /\ last.op \in ConstructionOps =>
          \A body \in Bodies(last) :
              /\ body.stoploss_price
                    = IF Truthy(last.args.stoploss_price)
                      THEN Some(last.args.stoploss_price.u) ELSE NoneV
              /\ body.takeprofit_price
                    = IF Truthy(last.args.takeprofit_price)
                      THEN Some(last.args.takeprofit_price.u) ELSE NoneV

\* An order placed with an empty stop-loss price and a take-profit price:
\* the body carries the take-profit pair only.
C18_EmptyStopLossLeftOut ==
    /\ last.op = "orders.create_limit_order"
    /\ last.args.stoploss_price = EmptyS
    /\ last.args.takeprofit_price = Num(1500)
    /\ last.outcome = "ok"
    /\ WireBody(last).is_stoploss = NoneV
    /\ WireBody(last).stoploss_price = NoneV
    /\ WireBody(last).is_takeprofit = Some(TRUE)
    /\ WireBody(last).takeprofit_price = Some(1500)

-----------------------------------------------------------------------------
(* Properties: the returned Order *)

ReturningOps == QuantityOps \cup {"orders.create"}

\* C19 as stated: the Order returned by create_market_order,
\* create_limit_order and create has asset_id and symbol both equal to the
\* resolved identifier, whatever the response echoes.
C19_IdentifierInBothFields ==
    (last.op \in ReturningOps /\ last.outcome = "ok") =>
        /\ last.result.asset_id = Resolved(last.args)
        /\ last.result.symbol = Resolved(last.args)

\* C19 amended: asset_id is always the resolved identifier; symbol is the
\* resolved identifier when the order was addressed by symbol, and for an
\* order addressed by asset id it is the symbol the response echoes, the
\* identifier only when the response has none.
C19_IdentifierInjected ==
    (last.op \in ReturningOps /\ last.outcome = "ok") =>
        /\ last.result.asset_id = Resolved(last.args)
        /\ last.result.symbol =
              IF last.args.symbol \notin {NoneS, ""} THEN last.args.symbol
              ELSE IF last.echo.symbol # NoneS THEN last.echo.symbol
              ELSE last.args.asset_id

\* An order addressed by asset id whose response echoes a symbol: the Order
\* carries the asset id and the echoed symbol.
C19_EchoedSymbolKept ==
    /\ last.op = "orders.create"
    /\ last.outcome = "ok"
    /\ last.args.symbol = NoneS
    /\ last.args.asset_id = "a-01"
    /\ last.echo.symbol = "ETHUSDT"
    /\ last.result.symbol = "ETHUSDT"
    /\ last.result.asset_id = "a-01"

-----------------------------------------------------------------------------
(* Properties: rounding to the step *)

RoundingOps == {"round_to_step", "calculate_order_from_usd"}

\* C20: for every step s > 0 and raw quantity q, the quantity rounded to the
\* step is an integer multiple of s and validate_quantity accepts it.
C20_RoundedQuantityValidates ==
    (last.op \in RoundingOps /\ last.step > 0) =>
        /\ last.result % last.step = 0
        /\ last.valid

-----------------------------------------------------------------------------
(* Properties: a step of zero *)

\* The asset the lookup returned has a zero or absent quantity step, and a
\* usable price.
ZeroQuantityStep(call) ==
    /\ call.lookup.kind = "ok"
    /\ call.lookup.data.quantity_step \in {NoneV, Num(0)}

\* C21: when the step is zero or negative, step rounding returns the raw
\* value unchanged and does not fail: create_market_order_with_amount for an
\* asset whose quantity_step is 0 or absent does not fail in the division
\* and orders the raw quantity amount / price, and order construction puts
\* the caller's quantity on the wire.
C21_NonPositiveStepLeavesRawValue ==
    /\ (/\ last.op = AmountOp
        /\ ~NoIdentifier(last.args)
        /\ ~InvalidSide(last.args)
        /\ last.args.quantity.t = "num"
        /\ last.args.quantity.u > 0
        /\ ZeroQuantityStep(last)
        /\ last.lookup.data.price.t = "num"
        /\ last.lookup.data.price.u > 0)
       => /\ last.outcome # "ZeroDivisionError"
          /\ PostsOf(last.reqs) = 1 =>
                WireBody(last).quantity * last.lookup.data.price.u
                    = 1000 * last.args.quantity.u
    /\ (/\ last.op \in QuantityOps
        /\ ~NoIdentifier(last.args)
        /\ ~InvalidSide(last.args)
        /\ last.args.quantity.t = "num"
        /\ ZeroQuantityStep(last)
        /\ PostsOf(last.reqs) = 1)
       => WireBody(last).quantity = last.args.quantity.u

-----------------------------------------------------------------------------
(* Properties: payload parsing *)

\* A value that is zero-like: the number 0 or the string "0".
ZeroLike(v) == v \in {Number(0), Num(0)}

\* C22 as stated: normalize_quantity returns the payload's quantity when it
\* is present and neither empty nor zero-like, otherwise the payload's size,
\* otherwise "0".
C22_QuantityUnlessZeroLike ==
    last.op = "Order.from_dict" =>
        LET data == last.data
        IN last.result.quantity =
              IF data.quantity \notin {NoneV, EmptyS} /\ ~ZeroLike(data.quantity)
              THEN Str(data.quantity)
              ELSE IF data.size \notin {NoneV, EmptyS} /\ ~ZeroLike(data.size)
              THEN Str(data.size)
              ELSE Num(0)

\* C22: normalize_quantity returns, as a string, the payload's quantity when
\* it is present and neither empty nor the number zero (the string "0" is
\* returned as it is), otherwise the payload's size under the same
\* condition, otherwise "0"; Order.from_dict derives filled_quantity from
\* filled_quantity / filled_size by the same rule.
C22_QuantityUnlessFalsy ==
    last.op = "Order.from_dict" =>
        LET data == last.data
        IN /\ last.result.quantity =
                 IF data.quantity \notin {NoneV, EmptyS, Number(0)}
                 THEN Str(data.quantity)
                 ELSE IF data.size \notin {NoneV, EmptyS, Number(0)}
                 THEN Str(data.size)
                 ELSE Num(0)
           /\ last.result.filled_quantity =
                 IF data.filled_quantity \notin {NoneV, EmptyS, Number(0)}
                 THEN Str(data.filled_quantity)
                 ELSE IF data.filled_size \notin {NoneV, EmptyS, Number(0)}
                 THEN Str(data.filled_size)
                 ELSE Num(0)

\* The payload {size: "0.5", filled_size: "0.1"} parsed to quantity "0.5"
\* and filled_quantity "0.1".
C22_SizeBecomesQuantity ==
    /\ last.op = "Order.from_dict"
    /\ last.data = [ quantity |-> NoneV, size |-> Num(500),
                     filled_quantity |-> NoneV, filled_size |-> Num(100) ]
    /\ last.result = [quantity |-> Num(500), filled_quantity |-> Num(100)]

\* The price a payload carries for one of the two fields: under the nested
\* object when there is one, under the flat key otherwise.
CarriedPrice(nested, flat) ==
    IF nested.t = "dict" THEN nested.price ELSE flat

\* C23: Position.from_dict takes stoploss_price and takeprofit_price from
\* the nested object under stoploss / takeprofit when that object is present
\* (whatever the flat key carries), and from the flat stoploss_price /
\* takeprofit_price key otherwise; a price carried in the nested object, or
\* under the flat key of a payload without nested object, is the Position's.
C23_NestedPriceTakesPriority ==
    last.op = "Position.from_dict" =>
        LET data == last.data
            pos == last.result
        IN /\ pos.stoploss_price = CarriedPrice(data.stoploss, data.stoploss_price)
           /\ pos.takeprofit_price
                 = CarriedPrice(data.takeprofit, data.takeprofit_price)
           /\ (data.stoploss.t = "dict" /\ data.stoploss.price # NoneV)
                 => pos.stoploss_price = data.stoploss.price
           /\ (data.stoploss = NoneV /\ data.stoploss_price # NoneV)
                 => pos.stoploss_price = data.stoploss_price
           /\ (data.takeprofit.t = "dict" /\ data.takeprofit.price # NoneV)
                 => pos.takeprofit_price = data.takeprofit.price
           /\ (data.takeprofit = NoneV /\ data.takeprofit_price # NoneV)
                 => pos.takeprofit_price = data.takeprofit_price

\* A payload with a nested stop-loss of 4100 beside a flat stoploss_price of
\* 4200, and a flat take-profit only: the Position has 4100 and the flat
\* take-profit.
C23_NestedBesideFlat ==
    /\ last.op = "Position.from_dict"
    /\ last.data.stoploss = Nested(Num(4100))
    /\ last.data.stoploss_price = Num(4200)
    /\ last.data.takeprofit = NoneV
    /\ last.data.takeprofit_price = Num(4200)
    /\ last.result = [stoploss_price |-> Num(4100), takeprofit_price |-> Num(4200)]

-----------------------------------------------------------------------------
(* Properties: MCP tools *)

ToolOps == {"mcp.get_spot_balance", "mcp.create_market_order", "mcp.create_limit_order"}

IsErrorResponse(result) ==
    /\ result.kind = "ErrorResponse"
    /\ {"error", "error_type", "details"} \subseteq DOMAIN result

\* C24: no registered MCP tool ever raises: when the SDK call or the
\* construction of the response raises an exception, the tool call returns
\* an ErrorResponse mapping with error, error_type and details.
C24_ToolsNeverRaise ==
    last.op \in ToolOps =>
        /\ last.outcome = "returned"
        /\ last.sdk # "ok" => IsErrorResponse(last.result)

\* A create_market_order tool call whose SDK call failed on a missing side
\* (a ValueError, not one of the SDK's own errors) answered with an
\* ErrorResponse of type ValueError.
C24_ValueErrorReturned ==
    /\ last.op = "mcp.create_market_order"
    /\ last.sdk = "ValueError"
    /\ last.outcome = "returned"
    /\ IsErrorResponse(last.result)
    /\ last.result.error_type = "ValueError"
    /\ last.result.details = NoneV

\* C25: when client.orders.create_market_order succeeds (the order has been
\* placed), the create_market_order tool returns an OrderResponse, not an
\* ErrorResponse; an ErrorResponse therefore means no order was placed.
C25_PlacedOrderIsReported ==
    last.op = "mcp.create_market_order" =>
        /\ last.sdk = "ok" =>
              /\ last.outcome = "returned"
              /\ last.result.kind = "OrderResponse"
        /\ (last.outcome = "returned" /\ last.result.kind = "ErrorResponse")
              => last.sdk # "ok"

-----------------------------------------------------------------------------
(* Properties: total PnL *)

\* A position both of whose amounts float() accepts.
Parses(pos) == CanFloat(pos.unrealized_pnl) /\ CanFloat(pos.margin)

\* The sum of one field over the positions that parse.
RECURSIVE SumParsed(_, _, _)
SumParsed(positions, k, field) ==
    IF k > Len(positions) THEN 0
    ELSE (IF Parses(positions[k]) THEN positions[k][field].u ELSE 0)
         + SumParsed(positions, k + 1, field)

\* C26: positions.get_total_pnl skips a position as a whole when either its
\* unrealized_pnl or its margin cannot be parsed (it contributes to neither
\* total), and pnl_percentage is total_pnl / total_margin * 100 when
\* total_margin > 0 and 0 otherwise.
C26_UnparsedPositionSkippedWhole ==
    (last.op = "positions.get_total_pnl" /\ last.outcome = "ok") =>
        /\ last.result.total_unrealized_pnl
              = SumParsed(last.positions, 1, "unrealized_pnl")
        /\ last.result.total_margin = SumParsed(last.positions, 1, "margin")
        /\ last.result.pnl_percentage
              = IF last.result.total_margin > 0
                THEN [ num |-> 100 * last.result.total_unrealized_pnl,
                       den |-> last.result.total_margin ]
                ELSE [num |-> 0, den |-> 1]

-----------------------------------------------------------------------------
(* Properties: rate limiting *)

\* C27: a RateLimit error raised by raise_for_error from a remote response
\* (code RATE_LIMIT_EXCEEDED / TOO_MANY_REQUESTS, or status 429) carries a
\* retry-after duration that the caller can read from retry_after.
C27_RateLimitCarriesRetryAfter ==
    (last.op = "raise_for_error" /\ last.outcome = "MudrexRateLimitError") =>
        /\ "retry_after" \in DOMAIN last
        /\ last.retry_after # NoneV

-----------------------------------------------------------------------------
(* Properties: termination of the drains *)

\* floor(N / 100) + 1 for the remote collection of the call.
PagesOf(call) == RemoteLen(call) \div PerPage + 1

\* C28: every drain of a finite remote collection that honours the page /
\* offset parameter ends, within floor(N / 100) + 1 requests; with no cap it
\* requests pages 1, 2, ... (offsets 0, 100, ...) one after another and
\* stops after exactly floor(N / 100) + 1 requests, the last one being the
\* first page with fewer than 100 items.
C28_DrainStopsAtFirstShortPage ==
    last.op \in DrainOps =>
        /\ last.outcome \in {"ok", "TransportError"}
        /\ Len(last.reqs) <= PagesOf(last)
        /\ (Uncapped(last) /\ last.fault = NoFault) =>
              /\ last.outcome = "ok"
              /\ Len(last.reqs) = PagesOf(last)
              /\ \A k \in 1..Len(last.reqs) :
                    /\ RequestedPage(last.reqs[k]) = k
                    /\ last.reqs[k].path = "/futures" =>
                          /\ last.reqs[k].offset = (k - 1) * PerPage
                          /\ last.reqs[k].limit = PerPage
                    /\ k < Len(last.reqs) => ServedLen(last, k) = PerPage
              /\ ServedLen(last, Len(last.reqs)) < PerPage

\* An uncapped positions.get_history over exactly 100 records: two requests,
\* the second answered by an empty page.
C28_EmptyPageEndsDrain ==
    /\ last.op = "positions.get_history"
    /\ last.limit = NoneV
    /\ last.fault = NoFault
    /\ last.n = PerPage
    /\ last.outcome = "ok"
    /\ Len(last.reqs) = 2
    /\ Len(last.result) = PerPage

-----------------------------------------------------------------------------
(* Properties: concurrent refresh of the asset cache *)

\* The index the cache of "a1" would have if it were built from the cached
\* sequence.
IndexOfCache == Some(SymbolIndex(cache["a1"].v))

\* C29: the cache and the symbol index are replaced in two separate steps,
\* each wholesale from the storing thread's own fetch: the index a thread
\* stores is built from that thread's all_assets whatever the cache holds
\* at that moment, so it matches the cached sequence exactly when the cache
\* still holds that thread's fetch.
C29_IndexBuiltFromOwnFetch ==
    [][\A t \in Threads :
          (thread[t].pc = "store_index" /\ thread'[t].pc = "return") =>
              /\ index'["a1"] = Some(SymbolIndex(thread[t].all_assets))
              /\ cache' = cache
              /\ (index'["a1"] = Some(SymbolIndex(cache'["a1"].v)))
                    <=> (SymbolIndex(cache["a1"].v) = SymbolIndex(thread[t].all_assets))]_vars

\* Both threads have returned from list_all(refresh=True) and the symbol
\* index was built from a different fetch than the cached sequence.
C29_IndexFromOtherFetch ==
    /\ \A t \in Threads : thread[t].pc = "idle"
    /\ cache["a1"] \notin {Unset, NoneV}
    /\ index["a1"] \notin {Unset, NoneV}
    /\ index["a1"] # IndexOfCache
    /\ Len(cache["a1"].v) = 37
    /\ DOMAIN index["a1"].v # {a.symbol : a \in Elements(cache["a1"].v)}

-----------------------------------------------------------------------------
(* Properties: a failed drain and the asset cache *)

\* C30: a list_all call that fails part-way through its drain (a transport
\* error on any page, on first fill or on a forced refresh) leaves the asset
\* cache and the symbol index as they were before the call, and a list_all
\* with refresh=False on a filled cache is served from that cache without a
\* request: the catalog cached before a failed call is still served, and an
\* empty cache stays empty.
C30_FailedDrainLeavesCache ==
    [][/\ (last'.op = "assets.list_all" /\ last'.outcome = "TransportError") =>
              /\ last # last'
              /\ last'.reqs # <<>>
              /\ cache' = cache
              /\ index' = index
       /\ (/\ last'.op = "assets.list_all"
           /\ last # last'
           /\ ~last'.refresh
           /\ cache[last'.inst] \notin {Unset, NoneV}) =>
              /\ last'.outcome = "ok"
              /\ last'.reqs = <<>>
              /\ IsSortedCopy(last'.result, cache[last'.inst].v, last'.sort)
              /\ cache' = cache]_vars

\* A forced refresh that failed on its second page while a catalog was
\* cached: the cache still holds that catalog.
C30_RefreshFailedOnSecondPage ==
    /\ last.op = "assets.list_all"
    /\ last.refresh
    /\ last.outcome = "TransportError"
    /\ Len(last.reqs) = 2
    /\ last.held # NoneV
    /\ cache[last.inst] = last.held
    /\ Len(cache[last.inst].v) > 0

====
